---- MODULE Spec2Model ----
(***************************************************************************)
(* Model of the erato archive service decorator chain                      *)
(*   Validator -> Paginator -> Users -> Interactivity -> Hydrator -> Scraper*)
(* together with the interaction store and the pagination token codec.     *)
(*                                                                         *)
(* Paths are modelled as naturals: 0 is the empty string, categories are   *)
(* 1..9, entries 11..19, chapters 21..29, users 31..39; the order of the   *)
(* naturals stands for the lexicographic order of the path strings.        *)
(* Timestamps are naturals; an absent timestamp is the record NoTime.      *)
(***************************************************************************)
EXTENDS Integers, Sequences, FiniteSets, TLC

\* ------------------------------------------------------------------ bounds
MaxCategories == 3
MaxEntries == 5
MaxChapters == 3
MaxPageSize == 2
MaxOps == 2

\* --------------------------------------------------------------- universes
CategoryBase == 0
EntryBase == 10
ChapterBase == 20
UserBase == 30

CategoryPaths == { CategoryBase + i : i \in 1..MaxCategories }
EntryPaths == { EntryBase + i : i \in 1..MaxEntries }
ChapterPaths == { ChapterBase + i : i \in 1..MaxChapters }

Kinds == {"STORY", "ANTHOLOGY"}

OK == "OK"
InvalidArgument == "InvalidArgument"
Internal == "Internal"
PermissionDenied == "PermissionDenied"
NotFound == "NotFound"
AlreadyExists == "AlreadyExists"

\* sql.NullTime / optional Timestamp
NoTime == [Valid |-> FALSE, Time |-> 0]
SomeTime(t) == [Valid |-> TRUE, Time |-> t]

\* ----------------------------------------------------------- seq helpers
\* slices.IndexFunc: tests[i] is the outcome of the test on element i; the
\* first index that passes, 0 when none (Go's -1; Go's index i is i+1 here)
IndexFunc(tests) ==
  IF \E i \in 1..Len(tests) : tests[i]
    THEN CHOOSE i \in 1..Len(tests) : tests[i] /\ \A j \in 1..(i-1) : ~tests[j]
    ELSE 0

\* s[idx:] with Go's 0-based idx = from - 1
SliceFrom(s, from) == SubSeq(s, from, Len(s))

RECURSIVE Flatten(_)
Flatten(ss) == IF ss = <<>> THEN <<>> ELSE Head(ss) \o Flatten(Tail(ss))

Range(s) == { s[i] : i \in 1..Len(s) }

NoDup(s) == \A i, j \in 1..Len(s) : i # j => s[i] # s[j]

\* ------------------------------------------------- pagination token codec
\* A token string is a sequence of characters (naturals).  The base64url
\* alphabet has 64 characters; character c stands for the six-bit value
\* c - B64Lo.  Any other character makes DecodeString fail.
B64Lo == 10
B64Size == 64
B64Chars == B64Lo..(B64Lo + B64Size - 1)

\* field numbers of the token messages
TagPage == 1
TagAfter == 2
TagStart == 3

NilTkn == [nil |-> TRUE]
CategoriesTkn(after) == [nil |-> FALSE, schema |-> "categories", after |-> after]
ChaptersTkn(after) == [nil |-> FALSE, schema |-> "chapters", after |-> after]
EntriesTkn(page, after, start) ==
  [nil |-> FALSE, schema |-> "entries", page |-> page, after |-> after, start |-> start]

\* a fresh message of the schema (tkn.ProtoReflect().New())
NewTkn(schema) ==
  IF schema = "entries" THEN EntriesTkn(0, 0, NoTime)
  ELSE [nil |-> FALSE, schema |-> schema, after |-> 0]

\* a Marshal that takes a timestamp of zero seconds for an absent one
MarshalWithoutZeroTime(msg) ==
  IF msg.schema = "entries"
    THEN (IF msg.page # 0 THEN <<TagPage, msg.page>> ELSE <<>>)
         \o (IF msg.after # 0 THEN <<TagAfter, msg.after>> ELSE <<>>)
         \o (IF msg.start.Valid /\ msg.start.Time # 0 THEN <<TagStart, msg.start.Time>> ELSE <<>>)
    ELSE (IF msg.after # 0 THEN <<TagAfter, msg.after>> ELSE <<>>)

\* proto.Marshal: default-valued fields are omitted
Marshal(msg) ==
  IF msg.schema = "entries"
    THEN (IF msg.page # 0 THEN <<TagPage, msg.page>> ELSE <<>>)
         \o (IF msg.after # 0 THEN <<TagAfter, msg.after>> ELSE <<>>)
         \o (IF msg.start.Valid THEN <<TagStart, msg.start.Time>> ELSE <<>>)
    ELSE (IF msg.after # 0 THEN <<TagAfter, msg.after>> ELSE <<>>)

\* the wire data is a sequence of (tag, value) pairs; a dangling tag or a
\* zero tag is a malformed message
WellFormedWire(data) ==
  /\ Len(data) % 2 = 0
  /\ \A i \in 1..Len(data) : (i % 2 = 1) => data[i] # 0

\* value of the last occurrence of tag, or dflt (later fields overwrite)
RECURSIVE WireField(_, _, _)
WireField(data, tag, dflt) ==
  IF Len(data) < 2 THEN dflt
  ELSE LET rest == WireField(SubSeq(data, 1, Len(data) - 2), tag, dflt)
       IN IF data[Len(data) - 1] = tag THEN data[Len(data)] ELSE rest

\* proto.Unmarshal into a message of the given schema (unknown fields are
\* skipped, absent fields keep their default)
Unmarshal(data, schema) ==
  IF schema = "entries"
    THEN EntriesTkn(WireField(data, TagPage, 0),
                    WireField(data, TagAfter, 0),
                    IF \E i \in 1..Len(data) : i % 2 = 1 /\ data[i] = TagStart
                      THEN SomeTime(WireField(data, TagStart, 0)) ELSE NoTime)
    ELSE [nil |-> FALSE, schema |-> schema, after |-> WireField(data, TagAfter, 0)]

EncodeToString(data) == [i \in 1..Len(data) |-> data[i] + B64Lo]
DecodableString(tkn) == \A i \in 1..Len(tkn) : tkn[i] \in B64Chars
DecodeString(tkn) == [i \in 1..Len(tkn) |-> tkn[i] - B64Lo]

\* protovalidate rules of the token schemas: the cursor is required and, for
\* entries, so are the timestamp and a positive page
ValidTkn(msg) ==
  /\ msg.after # 0
  /\ msg.schema = "entries" => (msg.start.Valid /\ msg.page >= 1)

TokenError == "TokenError"

\* pagination.FromToken
FromToken(tkn, schema) ==
  IF ~DecodableString(tkn) THEN [err |-> TokenError, msg |-> NewTkn(schema)]
  ELSE IF ~WellFormedWire(DecodeString(tkn)) THEN [err |-> TokenError, msg |-> NewTkn(schema)]
  ELSE LET msg == Unmarshal(DecodeString(tkn), schema)
       IN IF ~ValidTkn(msg) THEN [err |-> TokenError, msg |-> msg]
          ELSE [err |-> OK, msg |-> msg]

\* pagination.ToToken
ToToken(msg) ==
  IF ~ValidTkn(msg) THEN [err |-> TokenError, tkn |-> <<>>]
  ELSE [err |-> OK, tkn |-> EncodeToString(Marshal(msg))]

\* ------------------------------------------------------------------- state
VARIABLES
  upstream,   \* the archive site: [categories, pages, scroll, chapters]
  resources,  \* the store's resources table, a set of db.Resource rows
  users,      \* the store's users table, a set of db.User rows
  session,    \* the client's position in a listing it is paging through
  last        \* the last call: request, response and what it touched

vars == <<upstream, resources, users, session, last>>

\* the one category whose entries, and the one entry whose chapters, the
\* site lists
ListedCategory == CategoryBase + 1
ListedEntry == EntryBase + 1

\* the clock value of timestamppb.Now() and the scraper's placeholder cursor
NowTime == 9
PlaceholderEntry == EntryBase + 9

\* slugconv.ToTitle of the slug of a path
DisplayName(path) == 100 + path

\* the text that follows a category's link on the root page
Description(path) == 200 + path

IsCategoryPath(p) == p \in (CategoryBase + 1)..(CategoryBase + 9)
IsEntryPath(p) == p \in (EntryBase + 1)..(EntryBase + 9)
IsChapterPath(p) == p \in (ChapterBase + 1)..(ChapterBase + 9)

\* ---------------------------------------------------------------- messages
Category(path) ==
  [path |-> path, display_name |-> DisplayName(path), description |-> Description(path),
   hidden |-> FALSE]
Entry(row) ==
  [path |-> row.path, display_name |-> DisplayName(row.path), kind |-> row.kind,
   update_time |-> row.update_time, starred |-> FALSE, hidden |-> FALSE,
   view_time |-> NoTime, read_time |-> NoTime]
Chapter(row) ==
  [path |-> row.path, display_name |-> DisplayName(row.path),
   update_time |-> row.update_time, view_time |-> NoTime, read_time |-> NoTime]

NoMsg == [none |-> TRUE]

\* What a handler did: the response (code and message), the tables it left
\* behind and the set of collaborators it touched ("scrape", "store_read",
\* "store_write").
Outcome(code, msg, res, usr, touched) ==
  [code |-> code, msg |-> msg, resources |-> res, users |-> usr, touched |-> touched,
   invoked |-> TRUE, warned |-> FALSE]


ListResponse(results, tkn) ==
  [code |-> OK, results |-> results, next_page_token |-> tkn, entriesAfterCursor |-> 0]
ListError(code) ==
  [code |-> code, results |-> <<>>, next_page_token |-> <<>>, entriesAfterCursor |-> 0]

\* ----------------------------------------------------------------- Scraper
\* Scraper.ListCategories: one Category per row of the root page
ScraperListCategories(req) ==
  ListResponse([i \in 1..Len(upstream.categories) |-> Category(upstream.categories[i])], <<>>)

\* Scraper.ListEntries
ScraperListEntries(req) ==
  IF ~IsCategoryPath(req.parent) THEN ListError(InvalidArgument)
  ELSE
    LET dec == IF req.page_token # <<>>
                 THEN FromToken(req.page_token, "entries")
                 ELSE [err |-> OK, msg |-> EntriesTkn(1, 0, NoTime)]
        page == dec.msg
        \* index{page-1}.html for page > 1, the category page otherwise
        fetched == IF page.page > 1 THEN page.page ELSE 1
    IN IF dec.err # OK THEN ListError(InvalidArgument)
       ELSE IF req.parent # ListedCategory \/ fetched > Len(upstream.pages)
         THEN ListError(Internal)
       ELSE
         LET rows == upstream.pages[fetched]
             results == [i \in 1..Len(rows) |-> Entry(rows[i])]
             paginated == (req.page_token # <<>> /\ page.page > 1) \/ upstream.scroll
             nextPage == IF Len(results) > 0
                           THEN EntriesTkn(page.page, results[Len(results)].path,
                                           SomeTime(results[Len(results)].update_time))
                           ELSE EntriesTkn(page.page, PlaceholderEntry, SomeTime(NowTime))
             enc == ToToken(nextPage)
         IN IF ~paginated THEN ListResponse(results, <<>>)
            ELSE IF enc.err # OK THEN ListError(Internal)
            ELSE ListResponse(results, enc.tkn)

\* Scraper.ListChapters
ScraperListChapters(req) ==
  IF ~IsEntryPath(req.parent) THEN ListError(InvalidArgument)
  ELSE IF req.parent # ListedEntry THEN ListError(Internal)
  ELSE ListResponse([i \in 1..Len(upstream.chapters) |-> Chapter(upstream.chapters[i])], <<>>)

\* ------------------------------------------------------- Scraper, Get calls
GetResponse(msg) == [code |-> OK, msg |-> msg]
GetError(code) == [code |-> code, msg |-> NoMsg]

\* the site serves a page for every entry its category lists, with the
\* row's timestamp as Last-Modified, and for every chapter of ListedEntry
SiteHasEntry(path) == \E i \in 1..Len(Flatten(upstream.pages)) : Flatten(upstream.pages)[i].path = path
SiteEntryRow(path) ==
  Flatten(upstream.pages)[CHOOSE i \in 1..Len(Flatten(upstream.pages)) :
                            Flatten(upstream.pages)[i].path = path]
SiteHasChapter(path) == \E i \in 1..Len(upstream.chapters) : upstream.chapters[i].path = path
SiteChapterRow(path) ==
  upstream.chapters[CHOOSE i \in 1..Len(upstream.chapters) : upstream.chapters[i].path = path]
\* the rows on an entry's own page: the chapters, for ListedEntry
SiteEntryPageRows(path) == IF path = ListedEntry THEN upstream.chapters ELSE <<>>

\* Scraper.GetCategory: the first listed category with the path
ScraperGetCategory(req) ==
  LET res == ScraperListCategories(req)
      idx == IndexFunc([i \in 1..Len(res.results) |-> res.results[i].path = req.path])
  IN IF res.code # OK THEN GetError(res.code)
     ELSE IF idx = 0 THEN GetError(NotFound)
     ELSE GetResponse(res.results[idx])

\* Scraper.GetEntry: kind from the rows on the entry's page, update_time
\* from its Last-Modified header
ScraperGetEntry(req) ==
  IF ~IsEntryPath(req.path) THEN GetError(InvalidArgument)
  ELSE IF ~SiteHasEntry(req.path) THEN GetError(Internal)
  ELSE GetResponse(
         [path |-> req.path, display_name |-> DisplayName(req.path),
          kind |-> IF Len(SiteEntryPageRows(req.path)) > 0 THEN "ANTHOLOGY" ELSE "STORY",
          update_time |-> SiteEntryRow(req.path).update_time,
          starred |-> FALSE, hidden |-> FALSE, view_time |-> NoTime, read_time |-> NoTime])

\* Scraper.GetChapter
ScraperGetChapter(req) ==
  IF ~IsChapterPath(req.path) THEN GetError(InvalidArgument)
  ELSE IF ~SiteHasChapter(req.path) THEN GetError(Internal)
  ELSE GetResponse(
         [path |-> req.path, display_name |-> DisplayName(req.path),
          update_time |-> SiteChapterRow(req.path).update_time,
          view_time |-> NoTime, read_time |-> NoTime])

\* ------------------------------------------------------------------- store
\* db.Resource rows are [User, Path, Hidden, Starred, ViewTime, ReadTime]
ZeroResource(user, path) ==
  [User |-> user, Path |-> path, Hidden |-> FALSE, Starred |-> FALSE,
   ViewTime |-> NoTime, ReadTime |-> NoTime]

\* DB.ListResources: the rows of the user whose path is one of paths
StoreListResources(user, paths) ==
  { r \in resources : r.User = user /\ r.Path \in paths }

\* ---------------------------------------------------------------- Hydrator
hydrateCategory(category, resource) == [category EXCEPT !.hidden = resource.Hidden]

\* a hydrateEntry that stamps the entry with the time it was viewed
hydrateEntryTouchingTime(entry, resource) ==
  [entry EXCEPT !.starred = resource.Starred,
                !.hidden = resource.Hidden,
                !.update_time = IF resource.ViewTime.Valid THEN resource.ViewTime.Time ELSE @,
                !.view_time = IF resource.ViewTime.Valid THEN resource.ViewTime ELSE @,
                !.read_time = IF resource.ReadTime.Valid THEN resource.ReadTime ELSE @]

hydrateEntry(entry, resource) ==
  [entry EXCEPT !.starred = resource.Starred,
                !.hidden = resource.Hidden,
                !.view_time = IF resource.ViewTime.Valid THEN resource.ViewTime ELSE @,
                !.read_time = IF resource.ReadTime.Valid THEN resource.ReadTime ELSE @]

hydrateChapter(chapter, resource) ==
  [chapter EXCEPT !.view_time = IF resource.ViewTime.Valid THEN resource.ViewTime ELSE @,
                  !.read_time = IF resource.ReadTime.Valid THEN resource.ReadTime ELSE @]

\* the hydrate callback each Hydrator method passes
hydrate(type, msg, resource) ==
  CASE type = "Category" -> hydrateCategory(msg, resource)
    [] type = "Entry" -> hydrateEntry(msg, resource)
    [] type = "Chapter" -> hydrateChapter(msg, resource)

\* hydrateList: the lookup map keeps the last result of each path, and only
\* results the batch lookup has a row for are touched
hydrateList(user, res, type) ==
  IF res.code # OK THEN res
  ELSE
    LET results == res.results
        userData == StoreListResources(user, { results[i].path : i \in 1..Len(results) })
        inLookup(i) == \A j \in (i+1)..Len(results) : results[j].path # results[i].path
        rowOf(p) == CHOOSE r \in userData : r.Path = p
    IN [res EXCEPT !.results =
          [i \in 1..Len(results) |->
             IF inLookup(i) /\ \E r \in userData : r.Path = results[i].path
               THEN hydrate(type, results[i], rowOf(results[i].path))
               ELSE results[i]]]

\* a lookup that forgets the user: WHERE path = ? alone
StoreGetResourceAnyUser(table, user, path) ==
  IF \E r \in table : r.Path = path
    THEN [err |-> OK, row |-> CHOOSE r \in table : r.Path = path]
    ELSE [err |-> NotFound, row |-> ZeroResource(0, 0)]

\* DB.GetResource on table: the row or ErrNotFound
StoreGetResource(table, user, path) ==
  IF \E r \in table : r.User = user /\ r.Path = path
    THEN [err |-> OK, row |-> CHOOSE r \in table : r.User = user /\ r.Path = path]
    ELSE [err |-> NotFound, row |-> ZeroResource(0, 0)]

\* DB.UpsertResource on table: insert, or replace the row of the same key
StoreUpsertResource(table, resource) ==
  { r \in table : ~(r.User = resource.User /\ r.Path = resource.Path) } \cup {resource}

\* a hydrateResource that takes a missing row for a failure of the store
hydrateResourceStrict(table, user, req, scraped, type) ==
  LET data == StoreGetResource(table, user, req.path)
  IN IF scraped.code # OK THEN scraped
     ELSE IF data.err # OK THEN GetError(Internal)
     ELSE GetResponse(hydrate(type, scraped.msg, data.row))

\* hydrateResource when both legs run to completion: the scrape's error
\* wins, a missing row hydrates from the zero-value db.Resource
hydrateResource(table, user, req, scraped, type) ==
  LET data == StoreGetResource(table, user, req.path)
      userData == IF data.err = OK THEN data.row ELSE ZeroResource(0, 0)
  IN IF scraped.code # OK THEN scraped
     ELSE GetResponse(hydrate(type, scraped.msg, userData))

HydratorGetCategory(table, user, req) ==
  hydrateResource(table, user, req, ScraperGetCategory(req), "Category")
HydratorGetEntry(table, user, req) ==
  hydrateResource(table, user, req, ScraperGetEntry(req), "Entry")
HydratorGetChapter(table, user, req) ==
  hydrateResource(table, user, req, ScraperGetChapter(req), "Chapter")

HydratorListCategories(user, req) == hydrateList(user, ScraperListCategories(req), "Category")
HydratorListEntries(user, req) == hydrateList(user, ScraperListEntries(req), "Entry")
HydratorListChapters(user, req) == hydrateList(user, ScraperListChapters(req), "Chapter")

\* ----------------------------------------------------------- Interactivity
\* the fields of the resource messages
MessageFields(type) ==
  CASE type = "Category" -> {"path", "display_name", "description", "hidden"}
    [] type = "Entry" -> {"path", "display_name", "kind", "update_time", "starred",
                          "hidden", "view_time", "read_time"}
    [] type = "Chapter" -> {"path", "display_name", "update_time", "view_time", "read_time"}
    [] type = "User" -> {"path", "id", "password"}

\* a field mask is nil, or a sequence of paths
NilMask == [nil |-> TRUE, paths |-> <<>>]
Mask(paths) == [nil |-> FALSE, paths |-> paths]

\* fieldmaskpb.FieldMask.IsValid: false for a nil mask, else every path
\* names a field of the message
MaskIsValid(mask, type) ==
  /\ ~mask.nil
  /\ \A i \in 1..Len(mask.paths) : mask.paths[i] \in MessageFields(type)

\* strings.ToLower on the mask paths the model uses
ToLower(path) == IF path = "Hidden" THEN "hidden" ELSE path

\* sql.NullTime{Valid: m.HasT(), Time: m.GetT().AsTime()}
SqlNullTime(t) == [Valid |-> t.Valid, Time |-> IF t.Valid THEN t.Time ELSE 0]

\* UpdateCategory's closure: apply the mask paths in order
RECURSIVE updateCategory(_, _, _)
updateCategory(resource, category, paths) ==
  IF paths = <<>> THEN [err |-> OK, resource |-> resource]
  ELSE LET path == ToLower(Head(paths))
       IN CASE path = "hidden" ->
                 updateCategory([resource EXCEPT !.Hidden = category.hidden], category, Tail(paths))
            [] OTHER -> [err |-> InvalidArgument, resource |-> resource]

\* a closure that skips the paths it does not know instead of refusing them
RECURSIVE updateEntrySkipping(_, _, _)
updateEntrySkipping(resource, entry, paths) ==
  IF paths = <<>> THEN [err |-> OK, resource |-> resource]
  ELSE LET path == ToLower(Head(paths))
       IN CASE path = "hidden" ->
                 updateEntrySkipping([resource EXCEPT !.Hidden = entry.hidden], entry, Tail(paths))
            [] path = "starred" ->
                 updateEntrySkipping([resource EXCEPT !.Starred = entry.starred], entry, Tail(paths))
            [] path = "view_time" ->
                 updateEntrySkipping([resource EXCEPT !.ViewTime = SqlNullTime(entry.view_time)],
                                     entry, Tail(paths))
            [] path = "read_time" ->
                 updateEntrySkipping([resource EXCEPT !.ReadTime = SqlNullTime(entry.read_time)],
                                     entry, Tail(paths))
            [] OTHER -> updateEntrySkipping(resource, entry, Tail(paths))

\* UpdateEntry's closure
RECURSIVE updateEntry(_, _, _)
updateEntry(resource, entry, paths) ==
  IF paths = <<>> THEN [err |-> OK, resource |-> resource]
  ELSE LET path == ToLower(Head(paths))
       IN CASE path = "hidden" ->
                 updateEntry([resource EXCEPT !.Hidden = entry.hidden], entry, Tail(paths))
            [] path = "starred" ->
                 updateEntry([resource EXCEPT !.Starred = entry.starred], entry, Tail(paths))
            [] path = "view_time" ->
                 updateEntry([resource EXCEPT !.ViewTime = SqlNullTime(entry.view_time)],
                             entry, Tail(paths))
            [] path = "read_time" ->
                 updateEntry([resource EXCEPT !.ReadTime = SqlNullTime(entry.read_time)],
                             entry, Tail(paths))
            [] OTHER -> [err |-> InvalidArgument, resource |-> resource]

\* UpdateChapter's closure
RECURSIVE updateChapter(_, _, _)
updateChapter(resource, chapter, paths) ==
  IF paths = <<>> THEN [err |-> OK, resource |-> resource]
  ELSE LET path == ToLower(Head(paths))
       IN CASE path = "view_time" ->
                 updateChapter([resource EXCEPT !.ViewTime = SqlNullTime(chapter.view_time)],
                               chapter, Tail(paths))
            [] path = "read_time" ->
                 updateChapter([resource EXCEPT !.ReadTime = SqlNullTime(chapter.read_time)],
                               chapter, Tail(paths))
            [] OTHER -> [err |-> InvalidArgument, resource |-> resource]

\* the update callback each Update method passes
update(type, resource, body, paths) ==
  CASE type = "Category" -> updateCategory(resource, body, paths)
    [] type = "Entry" -> updateEntry(resource, body, paths)
    [] type = "Chapter" -> updateChapter(resource, body, paths)

\* an update that never loads the stored row and starts from the zero row
updateResourceFromZero(user, req, type) ==
  LET upd == update(type, ZeroResource(user.ID, req.path), req.resource, req.update_mask.paths)
  IN IF ~MaskIsValid(req.update_mask, type) \/ Len(req.update_mask.paths) = 0
       THEN [err |-> InvalidArgument, table |-> resources, touched |-> {"store_read"}]
     ELSE IF upd.err # OK
       THEN [err |-> upd.err, table |-> resources, touched |-> {"store_read"}]
     ELSE [err |-> OK, table |-> StoreUpsertResource(resources, upd.resource),
           touched |-> {"store_read", "store_write"}]

\* updateResource: load the caller's row (or start from the zero row keyed
\* to caller and path), check the mask, apply it, upsert
updateResource(user, req, type) ==
  LET got == StoreGetResource(resources, user.ID, req.path)
      dbRes == IF got.err = NotFound THEN ZeroResource(user.ID, req.path) ELSE got.row
      upd == update(type, dbRes, req.resource, req.update_mask.paths)
  IN IF ~MaskIsValid(req.update_mask, type)
       THEN [err |-> InvalidArgument, table |-> resources, touched |-> {"store_read"}]
     ELSE IF Len(req.update_mask.paths) = 0
       THEN [err |-> InvalidArgument, table |-> resources, touched |-> {"store_read"}]
     ELSE IF upd.err # OK
       THEN [err |-> upd.err, table |-> resources, touched |-> {"store_read"}]
     ELSE [err |-> OK, table |-> StoreUpsertResource(resources, upd.resource),
           touched |-> {"store_read", "store_write"}]

\* the re-read that ends every Update call: Get<Resource> of the wrapped
\* handler (the Hydrator), against the table the upsert left
UpdateOutcome(upd, got) ==
  IF upd.err # OK THEN Outcome(upd.err, NoMsg, upd.table, users, upd.touched)
  ELSE Outcome(got.code, got.msg, upd.table, users, upd.touched \cup {"scrape"})

\* Interactivity.UpdateCategory
UpdateCategoryHandler(user, req) ==
  LET upd == updateResource(user, req, "Category")
  IN UpdateOutcome(upd, HydratorGetCategory(upd.table, user.ID, [path |-> req.path]))

\* an UpdateEntry whose re-read sees the table as it was before the upsert
UpdateEntryHandlerStale(user, req) ==
  LET upd == updateResource(user, req, "Entry")
  IN UpdateOutcome(upd, HydratorGetEntry(resources, user.ID, [path |-> req.path]))

\* Interactivity.UpdateEntry
UpdateEntryHandler(user, req) ==
  LET upd == updateResource(user, req, "Entry")
  IN UpdateOutcome(upd, HydratorGetEntry(upd.table, user.ID, [path |-> req.path]))

\* Interactivity.UpdateChapter
UpdateChapterHandler(user, req) ==
  LET upd == updateResource(user, req, "Chapter")
  IN UpdateOutcome(upd, HydratorGetChapter(upd.table, user.ID, [path |-> req.path]))

\* the Get calls through the chain
GetOutcome(got) == Outcome(got.code, got.msg, resources, users, {"scrape", "store_read"})
GetCategoryHandler(user, req) == GetOutcome(HydratorGetCategory(resources, user.ID, req))
GetEntryHandler(user, req) == GetOutcome(HydratorGetEntry(resources, user.ID, req))
GetChapterHandler(user, req) == GetOutcome(HydratorGetChapter(resources, user.ID, req))

\* ------------------------------------------------------------------- Users
\* db.User.Path: "users/" + Name; user names are the naturals UserBase + i
UserPath(user) == user.Name

UserMsg(user) == [path |-> UserPath(user), id |-> user.Name]

\* sec.HashPassword: bcrypt refuses passwords longer than 72 bytes
LongPassword == 99
HashPassword(password) ==
  IF password = LongPassword THEN [err |-> InvalidArgument, hash |-> 0]
  ELSE [err |-> OK, hash |-> password + 40]

\* an upsert keyed on the name: the row holding the name is replaced
StoreUpsertUserByName(table, user) ==
  [err |-> OK, table |-> { u \in table : u.ID # user.ID /\ u.Name # user.Name } \cup {user}]

\* DB.UpsertUser for a row with an ID: insert, or on a conflict update the
\* row of that ID; a conflict with another row's name changes nothing
StoreUpsertUser(table, user) ==
  IF \E u \in table : u.ID # user.ID /\ u.Name = user.Name
    THEN [err |-> AlreadyExists, table |-> table]
    ELSE [err |-> OK, table |-> { u \in table : u.ID # user.ID } \cup {user}]

\* DB.DeleteUser: DELETE FROM users WHERE id = ?.  The resources table
\* declares ON DELETE CASCADE on its user column, but db.Open never turns
\* foreign key enforcement on for the connection (it is off by default in
\* SQLite), so the statement removes the users row and nothing else.
StoreDeleteUser(table, userID) == { u \in table : u.ID # userID }

\* the ID the store's generator gives a row that has none: ids.Next() never
\* repeats, so the nth call of a behaviour draws the nth ID after the seeds
FirstNewID == 3
NewUserID == FirstNewID + last.n

\* Users.CreateUser
CreateUserHandler(req) ==
  LET hashed == HashPassword(req.user.password)
      ups == StoreUpsertUser(users, [ID |-> NewUserID, Name |-> req.id, PasswordHash |-> hashed.hash])
  IN IF hashed.err # OK THEN Outcome(InvalidArgument, NoMsg, resources, users, {})
     ELSE IF ups.err # OK THEN Outcome(ups.err, NoMsg, resources, users, {"store_write"})
     ELSE Outcome(OK, [path |-> req.id, id |-> req.id], resources, ups.table, {"store_write"})

\* Users.ListUsers
ListUsersHandler(caller, req) == Outcome(PermissionDenied, NoMsg, resources, users, {})

\* Users.GetUser: answered from the authenticated user alone
GetUserHandler(caller, req) ==
  IF req.path # UserPath(caller) THEN Outcome(PermissionDenied, NoMsg, resources, users, {})
  ELSE Outcome(OK, UserMsg(caller), resources, users, {})

\* UpdateUser's loop over the mask paths
RECURSIVE updateUser(_, _, _)
updateUser(authd, user, paths) ==
  IF paths = <<>> THEN [err |-> OK, user |-> authd]
  ELSE LET path == ToLower(Head(paths))
           hashed == HashPassword(user.password)
       IN CASE path = "password" ->
                 IF hashed.err # OK THEN [err |-> InvalidArgument, user |-> authd]
                 ELSE updateUser([authd EXCEPT !.PasswordHash = hashed.hash], user, Tail(paths))
            [] OTHER -> [err |-> InvalidArgument, user |-> authd]

\* Users.UpdateUser
UpdateUserHandler(caller, req) ==
  LET upd == updateUser(caller, req.resource, req.update_mask.paths)
      ups == StoreUpsertUser(users, upd.user)
  IN IF req.path # UserPath(caller) THEN Outcome(PermissionDenied, NoMsg, resources, users, {})
     ELSE IF ~MaskIsValid(req.update_mask, "User") \/ Len(req.update_mask.paths) = 0
       THEN Outcome(InvalidArgument, NoMsg, resources, users, {})
     ELSE IF upd.err # OK THEN Outcome(upd.err, NoMsg, resources, users, {})
     ELSE IF ups.err # OK THEN Outcome(ups.err, NoMsg, resources, users, {"store_write"})
     ELSE Outcome(OK, UserMsg(caller), resources, ups.table, {"store_write"})

\* a DeleteUser that deletes whoever the path names
DeleteUserHandlerByPath(caller, req) ==
  Outcome(OK, NoMsg, resources, { u \in users : UserPath(u) # req.path }, {"store_write"})

\* Users.DeleteUser
DeleteUserHandler(caller, req) ==
  IF req.path # UserPath(caller) THEN Outcome(PermissionDenied, NoMsg, resources, users, {})
  ELSE Outcome(OK, NoMsg, resources, StoreDeleteUser(users, caller.ID), {"store_write"})

\* ---------------------------------------------------------- Scraper, reads
\* Scraper.ReadEntry / ReadChapter through readContent: the page of the
\* path, NotFound when the site answers anything but 200
ContentOf(path) == 200 + path

ReadEntryHandler(req) ==
  IF ~IsEntryPath(req.path) THEN Outcome(InvalidArgument, NoMsg, resources, users, {})
  ELSE IF ~SiteHasEntry(req.path) THEN Outcome(NotFound, NoMsg, resources, users, {"scrape"})
  ELSE Outcome(OK, [content |-> ContentOf(req.path)], resources, users, {"scrape"})

ReadChapterHandler(req) ==
  IF ~IsChapterPath(req.path) THEN Outcome(InvalidArgument, NoMsg, resources, users, {})
  ELSE IF ~SiteHasChapter(req.path) THEN Outcome(NotFound, NoMsg, resources, users, {"scrape"})
  ELSE Outcome(OK, [content |-> ContentOf(req.path)], resources, users, {"scrape"})

\* --------------------------------------------------------------- Paginator
\* the filter expressions a request can carry ("" is no filter)
FilterKindStory == "this.kind == STORY"
FilterKindAnthology == "this.kind == ANTHOLOGY"
FilterHidden == "this.hidden"
FilterNotBool == "this.path"
FilterUnknown == "this.bogus"
Filters == {"", FilterKindStory, FilterKindAnthology, FilterHidden, FilterNotBool, FilterUnknown}

\* the fields of the element type of each results list
ElemFields(schema) ==
  CASE schema = "categories" -> {"path", "display_name", "description", "hidden"}
    [] schema = "entries" -> {"path", "display_name", "kind", "update_time", "starred",
                              "hidden", "view_time", "read_time"}
    [] schema = "chapters" -> {"path", "display_name", "update_time", "view_time", "read_time"}

\* compileFilter: the expression must type-check against the element type
\* and the predicate must be boolean
compileFilter(schema, filter) ==
  CASE filter \in {FilterKindStory, FilterKindAnthology} -> "kind" \in ElemFields(schema)
    [] filter = FilterHidden -> "hidden" \in ElemFields(schema)
    [] OTHER -> FALSE

\* the compiled predicate applied to one element
EvalFilter(filter, elem) ==
  CASE filter = FilterKindStory -> elem.kind = "STORY"
    [] filter = FilterKindAnthology -> elem.kind = "ANTHOLOGY"
    [] filter = FilterHidden -> elem.hidden
    [] OTHER -> FALSE

\* applyFilter
applyFilter(req, res, schema) ==
  IF req.filter = "" \/ Len(res.results) = 0 THEN res
  ELSE IF ~compileFilter(schema, req.filter) THEN ListError(InvalidArgument)
  ELSE [res EXCEPT !.results = SelectSeq(res.results, LAMBDA el : EvalFilter(req.filter, el))]

\* Paginator.ListCategories, the token closure
categoriesApplyToken(tkn, res) ==
  LET results == res.results
      exact == IndexFunc([i \in 1..Len(results) |-> results[i].path = tkn.after])
      next == IndexFunc([i \in 1..Len(results) |-> tkn.after < results[i].path])
  IN IF exact # 0 THEN [res EXCEPT !.results = SliceFrom(results, exact + 1)]
     ELSE IF next # 0 THEN [res EXCEPT !.results = SliceFrom(results, next)]
     ELSE [res EXCEPT !.results = <<>>]

\* Paginator.ListCategories, the page size closure
categoriesApplySize(size, token, res) ==
  LET results == SubSeq(res.results, 1, size)
  IN [res |-> [res EXCEPT !.results = results],
      tkn |-> CategoriesTkn(results[size].path)]

\* a token closure whose fallback skips the rows updated at the cursor's time
entriesApplyTokenStrictlyLater(tkn, res) ==
  LET results == res.results
      exact == IndexFunc([i \in 1..Len(results) |->
                 results[i].path = tkn.after /\ SomeTime(results[i].update_time) = tkn.start])
      later == IndexFunc([i \in 1..Len(results) |-> tkn.start.Time < results[i].update_time])
  IN IF exact # 0
       THEN [res EXCEPT !.results = SliceFrom(results, exact + 1),
                        !.entriesAfterCursor = Len(results) - exact]
     ELSE IF later # 0
       THEN [res EXCEPT !.results = SliceFrom(results, later),
                        !.entriesAfterCursor = Len(results) - later + 1]
     ELSE [res EXCEPT !.results = <<>>, !.entriesAfterCursor = 0]

\* Paginator.ListEntries, the token closure
entriesApplyToken(tkn, res) ==
  LET results == res.results
      exact == IndexFunc([i \in 1..Len(results) |->
                 results[i].path = tkn.after /\ SomeTime(results[i].update_time) = tkn.start])
      onOrAfter == IndexFunc([i \in 1..Len(results) |-> tkn.start.Time <= results[i].update_time])
  IN IF exact # 0
       THEN [res EXCEPT !.results = SliceFrom(results, exact + 1),
                        !.entriesAfterCursor = Len(results) - exact]
     ELSE IF onOrAfter # 0
       THEN [res EXCEPT !.results = SliceFrom(results, onOrAfter),
                        !.entriesAfterCursor = Len(results) - onOrAfter + 1]
     ELSE [res EXCEPT !.results = <<>>, !.entriesAfterCursor = 0]

\* Paginator.ListEntries, the page size closure
entriesApplySize(size, token, res) ==
  LET results == SubSeq(res.results, 1, size)
      base == IF token.nil THEN EntriesTkn(1, 0, NoTime) ELSE token
      page == IF res.entriesAfterCursor > 0 /\ res.entriesAfterCursor <= size
                THEN base.page + 1 ELSE base.page
  IN [res |-> [res EXCEPT !.results = results],
      tkn |-> EntriesTkn(page, results[size].path, SomeTime(results[size].update_time))]

\* a token closure that returns nothing when the cursor chapter is gone
chaptersApplyTokenEmptying(tkn, res) ==
  LET results == res.results
      exact == IndexFunc([i \in 1..Len(results) |-> results[i].path = tkn.after])
  IN IF exact # 0 THEN [res EXCEPT !.results = SliceFrom(results, exact + 1)]
     ELSE [res EXCEPT !.results = <<>>]

\* Paginator.ListChapters, the token closure
chaptersApplyToken(tkn, res) ==
  LET results == res.results
      exact == IndexFunc([i \in 1..Len(results) |-> results[i].path = tkn.after])
  IN IF exact # 0 THEN [res EXCEPT !.results = SliceFrom(results, exact + 1)]
     ELSE res

\* Paginator.ListChapters, the page size closure
chaptersApplySize(size, token, res) ==
  LET results == SubSeq(res.results, 1, size)
  IN [res |-> [res EXCEPT !.results = results],
      tkn |-> ChaptersTkn(results[size].path)]

\* the closures each Paginator method hands to applyPagination
applyPageTokenFn(schema, tkn, res) ==
  CASE schema = "categories" -> categoriesApplyToken(tkn, res)
    [] schema = "entries" -> entriesApplyToken(tkn, res)
    [] schema = "chapters" -> chaptersApplyToken(tkn, res)

applyPageSizeFn(schema, size, token, res) ==
  CASE schema = "categories" -> categoriesApplySize(size, token, res)
    [] schema = "entries" -> entriesApplySize(size, token, res)
    [] schema = "chapters" -> chaptersApplySize(size, token, res)

\* an applyToken that takes a token it cannot decode for no token at all
applyTokenIgnoringBad(pageTkn, schema, res) ==
  IF pageTkn = <<>> THEN res
  ELSE LET dec == FromToken(pageTkn, schema)
       IN IF dec.err # OK THEN res
          ELSE applyPageTokenFn(schema, dec.msg, res)

\* applyToken
applyToken(pageTkn, schema, res) ==
  IF pageTkn = <<>> THEN res
  ELSE LET dec == FromToken(pageTkn, schema)
       IN IF dec.err # OK THEN ListError(InvalidArgument)
          ELSE applyPageTokenFn(schema, dec.msg, res)

\* applyPageSize
applyPageSize(req, res, schema) ==
  LET size == req.max_page_size
      currentSize == Len(res.results)
  IN IF size <= 0 \/ currentSize < size THEN res
     ELSE
       LET dec == IF res.next_page_token # <<>>
                    THEN FromToken(res.next_page_token, schema)
                    ELSE [err |-> OK, msg |-> NilTkn]
           applied == applyPageSizeFn(schema, size, dec.msg, res)
           enc == ToToken(applied.tkn)
       IN IF dec.err # OK THEN ListError(InvalidArgument)
          ELSE IF enc.err # OK THEN ListError(Internal)
          ELSE [applied.res EXCEPT !.next_page_token = enc.tkn]

\* an applyPagination that cuts the page before it filters
applyPaginationSizeFirst(req, res, schema) ==
  LET afterToken == applyToken(req.page_token, schema, res)
      afterSize == applyPageSize(req, afterToken, schema)
  IN IF afterToken.code # OK THEN afterToken
     ELSE IF afterSize.code # OK THEN afterSize
     ELSE applyFilter(req, afterSize, schema)

\* applyPagination: token, then filter, then page size
applyPagination(req, res, schema) ==
  LET afterToken == applyToken(req.page_token, schema, res)
      afterFilter == applyFilter(req, afterToken, schema)
  IN IF afterToken.code # OK THEN afterToken
     ELSE IF afterFilter.code # OK THEN afterFilter
     ELSE applyPageSize(req, afterFilter, schema)

\* Paginator.ListCategories
PaginatorListCategories(user, req) ==
  LET res == HydratorListCategories(user, req)
  IN IF res.code # OK THEN res
     ELSE applyPagination(req, res, "categories")

\* Paginator.ListEntries
PaginatorListEntries(user, req) ==
  LET res == HydratorListEntries(user, req)
  IN IF res.code # OK THEN res
     ELSE applyPagination(req, res, "entries")

\* Paginator.ListChapters
PaginatorListChapters(user, req) ==
  LET res == HydratorListChapters(user, req)
  IN IF res.code # OK THEN res
     ELSE applyPagination(req, res, "chapters")

\* --------------------------------------------------------------- Validator
\* a validator that runs the handler and only then looks at the request
validateAfterHandling(reqValid, resValid, handled) ==
  IF ~reqValid THEN [handled EXCEPT !.code = InvalidArgument, !.msg = NoMsg]
  ELSE IF handled.code # OK THEN handled
  ELSE [handled EXCEPT !.warned = ~resValid]

\* a validator that refuses to return a response that fails validation
validateResponseStrictly(reqValid, resValid, handled) ==
  IF ~reqValid
    THEN [code |-> InvalidArgument, msg |-> NoMsg, resources |-> resources, users |-> users,
          touched |-> {}, invoked |-> FALSE, warned |-> FALSE]
  ELSE IF handled.code # OK THEN handled
  ELSE IF ~resValid THEN [handled EXCEPT !.code = Internal, !.msg = NoMsg, !.warned = TRUE]
  ELSE handled

\* validate: reqValid and resValid are protovalidate's verdicts on the
\* request and on the response message; handled is the wrapped handler's
\* outcome, which is only used (the handler only runs) for a valid request
validate(reqValid, resValid, handled) ==
  IF ~reqValid
    THEN [code |-> InvalidArgument, msg |-> NoMsg, resources |-> resources, users |-> users,
          touched |-> {}, invoked |-> FALSE, warned |-> FALSE]
  ELSE IF handled.code # OK THEN handled
  ELSE [handled EXCEPT !.warned = ~resValid]

\* a list handler's outcome: it scrapes, and reads the store once the scrape
\* succeeded (hydrateList)
ListOutcome(res, scraped) ==
  Outcome(res.code,
          IF res.code = OK
            THEN [results |-> res.results, next_page_token |-> res.next_page_token]
            ELSE NoMsg,
          resources, users,
          IF scraped.code = OK THEN {"scrape", "store_read"} ELSE {"scrape"})

ListCategoriesHandler(user, req) ==
  ListOutcome(PaginatorListCategories(user, req), ScraperListCategories(req))
ListEntriesHandler(user, req) ==
  ListOutcome(PaginatorListEntries(user, req), ScraperListEntries(req))
ListChaptersHandler(user, req) ==
  ListOutcome(PaginatorListChapters(user, req), ScraperListChapters(req))

ListRequest(parent, tkn, size, filter) ==
  [parent |-> parent, page_token |-> tkn, max_page_size |-> size, filter |-> filter]

\* ------------------------------------------------------ paging a listing
\* The client starts with an empty page_token and passes back every
\* next_page_token it gets with the same filter and max_page_size; pages
\* records the paths each call returned.
ListOps == {"ListCategories", "ListEntries", "ListChapters"}

SessionUser == 1

PathsOf(results) == [i \in 1..Len(results) |-> results[i].path]

SessionRequest ==
  ListRequest(session.parent, session.page_token, session.max_page_size, session.filter)

SessionStep(out) ==
  /\ session' =
       IF out.code # OK THEN [session EXCEPT !.pc = "failed"]
       ELSE [session EXCEPT
               !.pages = Append(@, PathsOf(out.msg.results)),
               !.page_token = out.msg.next_page_token,
               !.pc = IF out.msg.next_page_token = <<>> THEN "done" ELSE "run"]
  /\ last' = [op |-> session.op, user |-> SessionUser, req |-> SessionRequest, out |-> out]
  /\ UNCHANGED <<upstream, resources, users>>

MaxCalls == MaxEntries + 2

CanCall(op) ==
  /\ session.op = op
  /\ session.pc = "run"
  /\ Len(session.pages) < MaxCalls

ListCategoriesNext ==
  /\ CanCall("ListCategories")
  /\ SessionStep(validate(TRUE, TRUE, ListCategoriesHandler(SessionUser, SessionRequest)))

ListEntriesNext ==
  /\ CanCall("ListEntries")
  /\ SessionStep(validate(TRUE, TRUE, ListEntriesHandler(SessionUser, SessionRequest)))

ListChaptersNext ==
  /\ CanCall("ListChapters")
  /\ SessionStep(validate(TRUE, TRUE, ListChaptersHandler(SessionUser, SessionRequest)))

\* the sites the paging sessions run against
TimeProfiles == {"same", "descending", "ascending"}

RowTime(profile, i, n) ==
  CASE profile = "same" -> 1
    [] profile = "descending" -> n + 1 - i
    [] profile = "ascending" -> i

\* n entry rows with the given kinds, paths in listing order
EntryRows(kinds, profile) ==
  [i \in 1..Len(kinds) |->
     [path |-> EntryBase + i, kind |-> kinds[i],
      update_time |-> RowTime(profile, i, Len(kinds))]]

\* rows cut into one page, or into two non-empty pages after row cut
Pages(rows, cut) ==
  IF cut = 0 THEN <<rows>>
  ELSE <<SubSeq(rows, 1, cut), SubSeq(rows, cut + 1, Len(rows))>>

KindSeqs == UNION { [1..n -> Kinds] : n \in 0..MaxEntries }

\* a category in two pages carries the scroll marker, a category in one page
\* does not
EntrySites ==
  { [categories |-> <<ListedCategory>>, pages |-> Pages(EntryRows(kinds, profile), cut),
     scroll |-> (cut # 0), chapters |-> <<>>] :
      <<kinds, profile, cut>> \in
        { q \in KindSeqs \X TimeProfiles \X (0..(MaxEntries - 1)) :
            /\ q[3] < Len(q[1]) \/ q[3] = 0
            /\ Len(q[1]) <= 1 => q[2] = "same" } }

CategorySeqs ==
  { s \in UNION { [1..n -> CategoryPaths] : n \in 0..MaxCategories } : NoDup(s) }

CategorySites ==
  { [categories |-> cats, pages |-> <<<<>>>>, scroll |-> FALSE, chapters |-> <<>>] :
      cats \in CategorySeqs }

ChapterSites ==
  { [categories |-> <<ListedCategory>>,
     pages |-> <<EntryRows(<<"ANTHOLOGY">>, "same")>>, scroll |-> FALSE,
     chapters |-> [i \in 1..n |-> [path |-> ChapterBase + i,
                                   update_time |-> RowTime(profile, i, n)]]] :
      <<n, profile>> \in { q \in (0..MaxChapters) \X TimeProfiles : q[1] <= 1 => q[2] = "same" } }

SitesOf(op) ==
  CASE op = "ListCategories" -> CategorySites
    [] op = "ListEntries" -> EntrySites
    [] op = "ListChapters" -> ChapterSites

ParentOf(op) ==
  CASE op = "ListCategories" -> 0
    [] op = "ListEntries" -> ListedCategory
    [] op = "ListChapters" -> ListedEntry

\* the rows of the session user the store can hold while a listing is paged
HiddenRow(path) == [ZeroResource(SessionUser, path) EXCEPT !.Hidden = TRUE]
PagingStores ==
  { {}, {HiddenRow(CategoryBase + 1)}, {HiddenRow(CategoryBase + 2)},
    {HiddenRow(EntryBase + 1)}, {HiddenRow(EntryBase + 2), HiddenRow(EntryBase + 3)} }

TheUsers == { [ID |-> 1, Name |-> UserBase + 1, PasswordHash |-> 1],
              [ID |-> 2, Name |-> UserBase + 2, PasswordHash |-> 2] }

InitPaging ==
  /\ \E op \in ListOps :
       /\ upstream \in SitesOf(op)
       /\ \E filter \in Filters, size \in 0..MaxPageSize :
            session = [op |-> op, parent |-> ParentOf(op), filter |-> filter,
                       max_page_size |-> size, page_token |-> <<>>, pages |-> <<>>,
                       pc |-> "run"]
  /\ resources \in PagingStores
  /\ session.filter # FilterHidden => resources = {}
  /\ users = TheUsers
  /\ last = [op |-> "none"]

NextPaging == ListCategoriesNext \/ ListEntriesNext \/ ListChaptersNext

SpecPaging == InitPaging /\ [][NextPaging]_vars

\* a client that lists a category the upstream serves in two pages and
\* keeps calling while it holds a token
MaxPagedEntries == 4

PagedSites ==
  { [categories |-> <<ListedCategory>>,
     pages |-> Pages(EntryRows([i \in 1..n |-> "STORY"], profile), cut),
     scroll |-> TRUE, chapters |-> <<>>] :
      <<n, profile, cut>> \in
        { q \in (2..MaxPagedEntries) \X TimeProfiles \X (1..(MaxPagedEntries - 1)) :
            q[3] < q[1] } }

InitPaged ==
  /\ upstream \in PagedSites
  /\ \E size \in 1..MaxPageSize :
       session = [op |-> "ListEntries", parent |-> ListedCategory, filter |-> "",
                  max_page_size |-> size, page_token |-> <<>>, pages |-> <<>>,
                  pc |-> "run"]
  /\ resources = {}
  /\ users = TheUsers
  /\ last = [op |-> "none"]

\* one call of the client: it sends the token it holds and keeps the answer.
\* session.pages records the pages that brought an entry the client had
\* not seen, so a client that is handed the same answer again is back in
\* the state it was in
PagedPages(pages, paths) ==
  IF Range(paths) \subseteq Range(Flatten(pages)) THEN pages ELSE Append(pages, paths)

PagedStep(out) ==
  /\ session' =
       IF out.code # OK THEN [session EXCEPT !.pc = "failed"]
       ELSE [session EXCEPT
               !.pages = PagedPages(@, PathsOf(out.msg.results)),
               !.page_token = out.msg.next_page_token,
               !.pc = IF out.msg.next_page_token = <<>> THEN "done" ELSE "run"]
  /\ last' = [op |-> session.op, user |-> SessionUser, req |-> SessionRequest, out |-> out]
  /\ UNCHANGED <<upstream, resources, users>>

PagedListEntries ==
  /\ session.op = "ListEntries"
  /\ session.pc = "run"
  /\ PagedStep(validate(TRUE, TRUE, ListEntriesHandler(SessionUser, SessionRequest)))

NextPaged == PagedListEntries

\* the client keeps calling while it holds a token
SpecPaged == InitPaged /\ [][NextPaged]_vars

\* the same client under weak fairness of its call, which is enabled exactly
\* while the client holds a token
SpecPagedFair ==
  /\ SpecPaged
  /\ ([]<>~(session.op = "ListEntries" /\ session.pc = "run")) \/ ([]<><<NextPaged>>_vars)

\* ------------------------------------------- calls that read and update
\* the site the calls below run against: two categories, an anthology with
\* one chapter and a story
OpsSite ==
  [categories |-> <<CategoryBase + 1, CategoryBase + 2>>,
   pages |-> <<<<[path |-> EntryBase + 1, kind |-> "ANTHOLOGY", update_time |-> 5],
                 [path |-> EntryBase + 2, kind |-> "STORY", update_time |-> 4]>>>>,
   scroll |-> FALSE,
   chapters |-> <<[path |-> ChapterBase + 1, update_time |-> 5]>>]

\* rows the store can hold when the first call arrives
StoreSeeds ==
  { {},
    { [User |-> 1, Path |-> EntryBase + 1, Hidden |-> TRUE, Starred |-> FALSE,
       ViewTime |-> SomeTime(3), ReadTime |-> NoTime],
      [User |-> 2, Path |-> EntryBase + 1, Hidden |-> FALSE, Starred |-> TRUE,
       ViewTime |-> NoTime, ReadTime |-> SomeTime(3)],
      [User |-> 2, Path |-> CategoryBase + 1, Hidden |-> TRUE, Starred |-> FALSE,
       ViewTime |-> NoTime, ReadTime |-> NoTime],
      [User |-> 1, Path |-> ChapterBase + 1, Hidden |-> FALSE, Starred |-> FALSE,
       ViewTime |-> SomeTime(3), ReadTime |-> SomeTime(3)] } }

\* the resource a request carries
CategoryBodies == { [hidden |-> h] : h \in BOOLEAN }
EntryBodies ==
  { [hidden |-> TRUE, starred |-> FALSE, view_time |-> SomeTime(1), read_time |-> NoTime],
    [hidden |-> FALSE, starred |-> TRUE, view_time |-> NoTime, read_time |-> SomeTime(2)] }
ChapterBodies ==
  { [view_time |-> SomeTime(1), read_time |-> NoTime],
    [view_time |-> NoTime, read_time |-> SomeTime(2)] }

\* the update masks a request carries
CategoryMasks ==
  { NilMask, Mask(<<>>), Mask(<<"hidden">>), Mask(<<"display_name">>), Mask(<<"starred">>) }
EntryMasks ==
  { NilMask, Mask(<<>>), Mask(<<"hidden">>), Mask(<<"starred">>), Mask(<<"view_time">>),
    Mask(<<"starred", "read_time">>), Mask(<<"hidden", "display_name">>),
    Mask(<<"starred", "bogus">>), Mask(<<"Hidden">>) }
ChapterMasks ==
  { Mask(<<>>), Mask(<<"view_time">>), Mask(<<"view_time", "read_time">>),
    Mask(<<"read_time", "update_time">>), Mask(<<"hidden">>) }

UpdateRequest(path, resource, mask) ==
  [path |-> path, resource |-> resource, update_mask |-> mask]

\* one call through the chain: the caller is an authenticated user
Call(op, caller, req, out) ==
  /\ last.n < MaxOps
  /\ last' = [n |-> last.n + 1, op |-> op, user |-> caller, req |-> req, out |-> out]
  /\ resources' = out.resources
  /\ users' = out.users
  /\ UNCHANGED <<upstream, session>>

UpdateCategory ==
  \E caller \in users, resource \in CategoryBodies, mask \in CategoryMasks :
    LET req == UpdateRequest(CategoryBase + 1, resource, mask)
    IN Call("UpdateCategory", caller, req, validate(TRUE, TRUE, UpdateCategoryHandler(caller, req)))

UpdateEntry ==
  \E caller \in users, resource \in EntryBodies, mask \in EntryMasks :
    LET req == UpdateRequest(EntryBase + 1, resource, mask)
    IN Call("UpdateEntry", caller, req, validate(TRUE, TRUE, UpdateEntryHandler(caller, req)))

UpdateChapter ==
  \E caller \in users, resource \in ChapterBodies, mask \in ChapterMasks :
    LET req == UpdateRequest(ChapterBase + 1, resource, mask)
    IN Call("UpdateChapter", caller, req, validate(TRUE, TRUE, UpdateChapterHandler(caller, req)))

GetCategory ==
  \E caller \in users :
    LET req == [path |-> CategoryBase + 1]
    IN Call("GetCategory", caller, req, validate(TRUE, TRUE, GetCategoryHandler(caller, req)))

GetEntry ==
  \E caller \in users :
    LET req == [path |-> EntryBase + 1]
    IN Call("GetEntry", caller, req, validate(TRUE, TRUE, GetEntryHandler(caller, req)))

GetChapter ==
  \E caller \in users :
    LET req == [path |-> ChapterBase + 1]
    IN Call("GetChapter", caller, req, validate(TRUE, TRUE, GetChapterHandler(caller, req)))

\* the user calls: the path names the caller or the other user
UserPaths == { UserBase + 1, UserBase + 2 }
UserBodies == { [password |-> 7], [password |-> LongPassword] }
UserMasks == { Mask(<<>>), Mask(<<"password">>), Mask(<<"id">>) }

CreateUser ==
  \E caller \in users, id \in {UserBase + 1, UserBase + 3}, resource \in UserBodies :
    LET req == [id |-> id, user |-> resource]
    IN Call("CreateUser", caller, req, validate(TRUE, TRUE, CreateUserHandler(req)))

ListUsers ==
  \E caller \in users, size \in 0..1 :
    LET req == ListRequest(0, <<>>, size, "")
    IN Call("ListUsers", caller, req, validate(TRUE, TRUE, ListUsersHandler(caller, req)))

GetUser ==
  \E caller \in users, path \in UserPaths :
    LET req == [path |-> path]
    IN Call("GetUser", caller, req, validate(TRUE, TRUE, GetUserHandler(caller, req)))

UpdateUser ==
  \E caller \in users, path \in UserPaths, resource \in UserBodies, mask \in UserMasks :
    LET req == UpdateRequest(path, resource, mask)
    IN Call("UpdateUser", caller, req, validate(TRUE, TRUE, UpdateUserHandler(caller, req)))

DeleteUser ==
  \E caller \in users, path \in UserPaths :
    LET req == [path |-> path]
    IN Call("DeleteUser", caller, req, validate(TRUE, TRUE, DeleteUserHandler(caller, req)))

IdleSession ==
  [op |-> "none", parent |-> 0, filter |-> "", max_page_size |-> 0, page_token |-> <<>>,
   pages |-> <<>>, pc |-> "idle"]

Init ==
  /\ upstream = OpsSite
  /\ resources \in StoreSeeds
  /\ users = TheUsers
  /\ session = IdleSession
  /\ last = [n |-> 0, op |-> "none"]

Next ==
  \/ UpdateCategory \/ UpdateEntry \/ UpdateChapter
  \/ GetCategory \/ GetEntry \/ GetChapter

Spec == Init /\ [][Next]_vars

\* the calls on users, from the same stores
InitUsers ==
  /\ upstream = OpsSite
  /\ resources \in StoreSeeds
  /\ users = TheUsers
  /\ session = IdleSession
  /\ last = [n |-> 0, op |-> "none"]

NextUsers == CreateUser \/ ListUsers \/ GetUser \/ UpdateUser \/ DeleteUser

SpecUsers == InitUsers /\ [][NextUsers]_vars

\* ------------------------------------------- one call at the boundary
\* One call of any operation arrives at the Validator.  Whether the request
\* and the response pass their schemas is an input; a list request carries
\* whatever string the client put in page_token.
UnlistedCategory == CategoryBase + 3
UnlistedEntry == EntryBase + 3
UnlistedChapter == ChapterBase + 3

BadChar == B64Lo - 1
UnknownTag == 4

TokenProbes ==
  { <<>>,
    <<BadChar>>,
    EncodeToString(<<TagAfter, CategoryBase + 1>>) \o <<BadChar>>,
    EncodeToString(<<TagAfter>>),
    EncodeToString(<<TagAfter, EntryBase + 1, TagStart>>),
    EncodeToString(<<0, 1>>),
    EncodeToString(<<UnknownTag, 1>>),
    EncodeToString(<<TagPage, 1>>),
    EncodeToString(<<TagAfter, 0>>),
    EncodeToString(<<TagAfter, CategoryBase + 1>>),
    EncodeToString(<<TagAfter, CategoryBase + 2>>),
    EncodeToString(<<TagAfter, ChapterBase + 1>>),
    EncodeToString(<<TagAfter, UnlistedChapter>>),
    EncodeToString(<<TagPage, 1, TagAfter, EntryBase + 1>>),
    EncodeToString(<<TagAfter, EntryBase + 1, TagStart, 5>>),
    EncodeToString(<<TagPage, 1, TagAfter, EntryBase + 1, TagStart, 5>>),
    EncodeToString(<<TagPage, 1, TagAfter, EntryBase + 2, TagStart, 4>>),
    EncodeToString(<<TagPage, 2, TagAfter, EntryBase + 1, TagStart, 5>>) }

BoundaryCall(op, caller, req, reqValid, resValid, handled) ==
  LET out == validate(reqValid, resValid, handled)
  IN /\ last.n = 0
     /\ last' = [n |-> 1, op |-> op, user |-> caller, req |-> req, out |-> out,
                 reqValid |-> reqValid, resValid |-> resValid, handled |-> handled]
     /\ resources' = out.resources
     /\ users' = out.users
     /\ UNCHANGED <<upstream, session>>

BoundaryListCategories ==
  \E caller \in users, tkn \in TokenProbes, size \in 0..1, reqValid \in BOOLEAN, resValid \in BOOLEAN :
    LET req == ListRequest(0, tkn, size, "")
    IN BoundaryCall("ListCategories", caller, req, reqValid, resValid,
                    ListCategoriesHandler(caller.ID, req))

BoundaryListEntries ==
  \E caller \in users, parent \in {ListedCategory, UnlistedCategory}, tkn \in TokenProbes,
     size \in 0..1, reqValid \in BOOLEAN, resValid \in BOOLEAN :
    LET req == ListRequest(parent, tkn, size, "")
    IN BoundaryCall("ListEntries", caller, req, reqValid, resValid,
                    ListEntriesHandler(caller.ID, req))

BoundaryListChapters ==
  \E caller \in users, parent \in {ListedEntry, UnlistedEntry}, tkn \in TokenProbes,
     size \in 0..1, reqValid \in BOOLEAN, resValid \in BOOLEAN :
    LET req == ListRequest(parent, tkn, size, "")
    IN BoundaryCall("ListChapters", caller, req, reqValid, resValid,
                    ListChaptersHandler(caller.ID, req))

BoundaryGetCategory ==
  \E caller \in users, path \in {ListedCategory, UnlistedCategory},
     reqValid \in BOOLEAN, resValid \in BOOLEAN :
    LET req == [path |-> path]
    IN BoundaryCall("GetCategory", caller, req, reqValid, resValid, GetCategoryHandler(caller, req))

BoundaryGetEntry ==
  \E caller \in users, path \in {ListedEntry, UnlistedEntry},
     reqValid \in BOOLEAN, resValid \in BOOLEAN :
    LET req == [path |-> path]
    IN BoundaryCall("GetEntry", caller, req, reqValid, resValid, GetEntryHandler(caller, req))

BoundaryGetChapter ==
  \E caller \in users, path \in {ChapterBase + 1, UnlistedChapter},
     reqValid \in BOOLEAN, resValid \in BOOLEAN :
    LET req == [path |-> path]
    IN BoundaryCall("GetChapter", caller, req, reqValid, resValid, GetChapterHandler(caller, req))

BoundaryReadEntry ==
  \E caller \in users, path \in {ListedEntry, UnlistedEntry, ChapterBase + 1},
     reqValid \in BOOLEAN, resValid \in BOOLEAN :
    LET req == [path |-> path]
    IN BoundaryCall("ReadEntry", caller, req, reqValid, resValid, ReadEntryHandler(req))

BoundaryReadChapter ==
  \E caller \in users, path \in {ChapterBase + 1, UnlistedChapter, ListedEntry},
     reqValid \in BOOLEAN, resValid \in BOOLEAN :
    LET req == [path |-> path]
    IN BoundaryCall("ReadChapter", caller, req, reqValid, resValid, ReadChapterHandler(req))

BoundaryUpdateCategory ==
  \E caller \in users, path \in {CategoryBase + 1, UnlistedCategory}, resource \in CategoryBodies, mask \in CategoryMasks,
     reqValid \in BOOLEAN, resValid \in BOOLEAN :
    LET req == UpdateRequest(path, resource, mask)
    IN BoundaryCall("UpdateCategory", caller, req, reqValid, resValid,
                    UpdateCategoryHandler(caller, req))

BoundaryUpdateEntry ==
  \E caller \in users, path \in {EntryBase + 1, UnlistedEntry}, resource \in EntryBodies, mask \in EntryMasks,
     reqValid \in BOOLEAN, resValid \in BOOLEAN :
    LET req == UpdateRequest(path, resource, mask)
    IN BoundaryCall("UpdateEntry", caller, req, reqValid, resValid,
                    UpdateEntryHandler(caller, req))

BoundaryUpdateChapter ==
  \E caller \in users, path \in {ChapterBase + 1, UnlistedChapter}, resource \in ChapterBodies, mask \in ChapterMasks,
     reqValid \in BOOLEAN, resValid \in BOOLEAN :
    LET req == UpdateRequest(path, resource, mask)
    IN BoundaryCall("UpdateChapter", caller, req, reqValid, resValid,
                    UpdateChapterHandler(caller, req))

BoundaryCreateUser ==
  \E caller \in users, id \in {UserBase + 1, UserBase + 3}, resource \in UserBodies,
     reqValid \in BOOLEAN, resValid \in BOOLEAN :
    LET req == [id |-> id, user |-> resource]
    IN BoundaryCall("CreateUser", caller, req, reqValid, resValid, CreateUserHandler(req))

BoundaryListUsers ==
  \E caller \in users, reqValid \in BOOLEAN, resValid \in BOOLEAN :
    LET req == ListRequest(0, <<>>, 0, "")
    IN BoundaryCall("ListUsers", caller, req, reqValid, resValid, ListUsersHandler(caller, req))

BoundaryGetUser ==
  \E caller \in users, path \in UserPaths, reqValid \in BOOLEAN, resValid \in BOOLEAN :
    LET req == [path |-> path]
    IN BoundaryCall("GetUser", caller, req, reqValid, resValid, GetUserHandler(caller, req))

BoundaryUpdateUser ==
  \E caller \in users, path \in UserPaths, resource \in UserBodies, mask \in UserMasks,
     reqValid \in BOOLEAN, resValid \in BOOLEAN :
    LET req == UpdateRequest(path, resource, mask)
    IN BoundaryCall("UpdateUser", caller, req, reqValid, resValid, UpdateUserHandler(caller, req))

BoundaryDeleteUser ==
  \E caller \in users, path \in UserPaths, reqValid \in BOOLEAN, resValid \in BOOLEAN :
    LET req == [path |-> path]
    IN BoundaryCall("DeleteUser", caller, req, reqValid, resValid, DeleteUserHandler(caller, req))

InitBoundary ==
  /\ upstream = OpsSite
  /\ resources \in StoreSeeds
  /\ users = TheUsers
  /\ session = IdleSession
  /\ last = [n |-> 0, op |-> "none"]

NextBoundary ==
  \/ BoundaryListCategories \/ BoundaryGetCategory \/ BoundaryUpdateCategory
  \/ BoundaryListEntries \/ BoundaryGetEntry \/ BoundaryUpdateEntry \/ BoundaryReadEntry
  \/ BoundaryListChapters \/ BoundaryGetChapter \/ BoundaryUpdateChapter \/ BoundaryReadChapter
  \/ BoundaryCreateUser \/ BoundaryListUsers \/ BoundaryGetUser \/ BoundaryUpdateUser
  \/ BoundaryDeleteUser

SpecBoundary == InitBoundary /\ [][NextBoundary]_vars

\* ---------------------------------------------------------- row timestamps
\* A listing row's timestamp is either in the recent form "Jan _2 15:04" or
\* in the older form "Jan _2 2006"; anything else is a string neither layout
\* parses.  Times are records [year, month, day, hour, minute].
MaxYears == 3
FirstYear == 2023
Years == FirstYear..(FirstYear + MaxYears - 1)
Months == 1..12
February == 2

recentRowFormat == "recent"
olderRowFormat == "older"

isLeap(year) == year % 4 = 0 /\ (year % 100 # 0 \/ year % 400 = 0)

daysIn(month, year) ==
  IF month = February THEN (IF isLeap(year) THEN 29 ELSE 28)
  ELSE IF month \in {4, 6, 9, 11} THEN 30 ELSE 31

\* time.Date: a day past the end of the month is carried into the next month
Date(year, month, day, hour, minute) ==
  IF day <= daysIn(month, year)
    THEN [year |-> year, month |-> month, day |-> day, hour |-> hour, minute |-> minute]
  ELSE IF month = 12
    THEN [year |-> year + 1, month |-> 1, day |-> day - daysIn(month, year),
          hour |-> hour, minute |-> minute]
  ELSE [year |-> year, month |-> month + 1, day |-> day - daysIn(month, year),
        hour |-> hour, minute |-> minute]

ParseError == "ParseError"

\* time.ParseInLocation: the value must be in the layout and its day must
\* exist in its month; an element the layout omits is zero (year 0 is a leap
\* year)
ParseInLocation(layout, value) ==
  IF value.form # layout THEN [err |-> ParseError, time |-> Date(0, 1, 1, 0, 0)]
  ELSE IF layout = recentRowFormat
    THEN IF value.day > daysIn(value.month, 0)
           THEN [err |-> ParseError, time |-> Date(0, 1, 1, 0, 0)]
           ELSE [err |-> OK, time |-> Date(0, value.month, value.day, value.hour, value.minute)]
  ELSE IF value.day > daysIn(value.month, value.year)
         THEN [err |-> ParseError, time |-> Date(0, 1, 1, 0, 0)]
         ELSE [err |-> OK, time |-> Date(value.year, value.month, value.day, 0, 0)]

\* a parseRowTimestamp that steps back a year when the parent's month is
\* after the row's
parseRowTimestampParentAfter(rowTimestamp, parentLastUpdated, now) ==
  LET recent == ParseInLocation(recentRowFormat, rowTimestamp)
      parsed == recent.time
      year == IF parentLastUpdated.year < now.year
                THEN (IF parentLastUpdated.month > parsed.month
                        THEN parentLastUpdated.year - 1 ELSE parentLastUpdated.year)
              ELSE IF now.month < parsed.month THEN now.year - 1
              ELSE now.year
  IN IF recent.err # OK THEN ParseInLocation(olderRowFormat, rowTimestamp)
     ELSE [err |-> OK,
           time |-> Date(year, parsed.month, parsed.day, parsed.hour, parsed.minute)]

\* Scraper.parseRowTimestamp; now is time.Now()
parseRowTimestamp(rowTimestamp, parentLastUpdated, now) ==
  LET recent == ParseInLocation(recentRowFormat, rowTimestamp)
      parsed == recent.time
      year == IF parentLastUpdated.year < now.year
                THEN (IF parentLastUpdated.month < parsed.month
                        THEN parentLastUpdated.year - 1 ELSE parentLastUpdated.year)
              ELSE IF now.month < parsed.month THEN now.year - 1
              ELSE now.year
  IN IF recent.err # OK THEN ParseInLocation(olderRowFormat, rowTimestamp)
     ELSE [err |-> OK,
           time |-> Date(year, parsed.month, parsed.day, parsed.hour, parsed.minute)]

\* the timestamps a row can show
RowDays == {1, 29, 31}
RowHours == {0, 23}
RowMinute == 4
RowTimestamps ==
  { [form |-> recentRowFormat, year |-> 0, month |-> m, day |-> d, hour |-> h,
     minute |-> RowMinute] : <<m, d, h>> \in Months \X RowDays \X RowHours }
  \cup { [form |-> olderRowFormat, year |-> y, month |-> m, day |-> d, hour |-> 0,
          minute |-> 0] : <<y, m, d>> \in Years \X {1, February, 12} \X RowDays }
  \cup { [form |-> "neither", year |-> 0, month |-> 3, day |-> 15, hour |-> 0, minute |-> 0] }

\* the parent page's Last-Modified and the clock: a year and a month
YearMonths == { [year |-> y, month |-> m] : <<y, m>> \in Years \X Months }

ParseRowTimestamp ==
  /\ last.op = "row"
  /\ last' = [last EXCEPT !.op = "parseRowTimestamp",
                           !.out = parseRowTimestamp(last.row, last.parent, last.now)]
  /\ UNCHANGED <<upstream, resources, users, session>>

InitTimestamp ==
  /\ upstream = OpsSite
  /\ resources = {}
  /\ users = TheUsers
  /\ session = IdleSession
  /\ \E row \in RowTimestamps, parent \in YearMonths, now \in YearMonths :
       last = [op |-> "row", row |-> row, parent |-> parent, now |-> now,
               out |-> [err |-> OK, time |-> Date(0, 1, 1, 0, 0)]]

NextTimestamp == ParseRowTimestamp

SpecTimestamp == InitTimestamp /\ [][NextTimestamp]_vars

\* ---------------------------------------------------- tokens on their own
\* the token messages a caller of ToToken can build, valid or not
TokenAfters == {0, CategoryBase + 1, EntryBase + 2, ChapterBase + 1}
TokenStarts == {NoTime, SomeTime(0), SomeTime(5)}
TokenMessages ==
  { CategoriesTkn(a) : a \in TokenAfters } \cup { ChaptersTkn(a) : a \in TokenAfters }
  \cup { EntriesTkn(page, a, start) :
           <<page, a, start>> \in (0..MaxPageSize) \X TokenAfters \X TokenStarts }

\* the strings a caller of FromToken can hold: the probes, and every token
\* ToToken issues cut short
ProperPrefixes(str) == { SubSeq(str, 1, n) : n \in 0..(Len(str) - 1) }
IssuedTokens == { ToToken(m).tkn : m \in { t \in TokenMessages : ToToken(t).err = OK } }
TokenStrings == TokenProbes \cup IssuedTokens \cup UNION { ProperPrefixes(t) : t \in IssuedTokens }

ToTokenStep ==
  /\ last.op = "message"
  /\ LET out == ToToken(last.msg)
     IN last' = [op |-> "ToToken", msg |-> last.msg, out |-> out,
                 back |-> IF out.err = OK THEN FromToken(out.tkn, last.msg.schema)
                          ELSE [err |-> out.err, msg |-> NewTkn(last.msg.schema)]]
  /\ UNCHANGED <<upstream, resources, users, session>>

FromTokenStep ==
  /\ last.op = "string"
  /\ last' = [op |-> "FromToken", tkn |-> last.tkn, schema |-> last.schema,
              out |-> FromToken(last.tkn, last.schema)]
  /\ UNCHANGED <<upstream, resources, users, session>>

InitToken ==
  /\ upstream = OpsSite
  /\ resources = {}
  /\ users = TheUsers
  /\ session = IdleSession
  /\ \/ \E m \in TokenMessages : last = [op |-> "message", msg |-> m]
     \/ \E tkn \in TokenStrings, schema \in {"categories", "entries", "chapters"} :
          last = [op |-> "string", tkn |-> tkn, schema |-> schema]

NextToken == ToTokenStep \/ FromTokenStep

SpecToken == InitToken /\ [][NextToken]_vars

\* ------------------------------------------- the join of hydrateResource
\* hydrateResource starts two goroutines in an errgroup, the wrapped
\* handler's call and the store lookup, and waits for both.  session holds
\* the call: each leg is running, ok or failed; ctx is the group's context;
\* errs lists the errors the legs returned in the order they returned them;
\* err is what the group's Wait will return (OK for nil).
JoinTypes == {"Category", "Entry", "Chapter"}

JoinPaths(type) ==
  CASE type = "Category" -> {ListedCategory, UnlistedCategory}
    [] type = "Entry" -> {ListedEntry, UnlistedEntry}
    [] type = "Chapter" -> {ChapterBase + 1, UnlistedChapter}

\* the wrapped handler's answer
handle(type, req) ==
  CASE type = "Category" -> ScraperGetCategory(req)
    [] type = "Entry" -> ScraperGetEntry(req)
    [] type = "Chapter" -> ScraperGetChapter(req)

\* a group that keeps the error of the leg that returned last
errgroupGoKeepingLast(err, returned) == returned

\* errgroup.Group.Go: the first error a leg returns is kept (errOnce)
errgroupGo(err, returned) == IF err = OK THEN returned ELSE err

JoinStart(type, user, path) ==
  [op |-> "hydrateResource", type |-> type, user |-> user, req |-> [path |-> path],
   pc |-> "legs", scrape |-> "running", lookup |-> "running", ctx |-> "live",
   errs |-> <<>>, err |-> OK, res |-> NoMsg, userData |-> ZeroResource(0, 0),
   hydratedAfter |-> {}, out |-> GetError(OK)]

LegFailed(leg, code) ==
  session' = [session EXCEPT ![leg] = "failed",
                             !.errs = Append(@, code),
                             !.err = errgroupGo(@, code),
                             !.ctx = "cancelled"]

\* the first goroutine: res, err = handle(ctx, req)
ScrapeLegSucceeds ==
  /\ session.pc = "legs" /\ session.scrape = "running"
  /\ handle(session.type, session.req).code = OK
  /\ session' = [session EXCEPT !.scrape = "ok",
                                !.res = handle(session.type, session.req).msg]
  /\ UNCHANGED <<upstream, resources, users, last>>

ScrapeLegFails ==
  /\ session.pc = "legs" /\ session.scrape = "running"
  /\ handle(session.type, session.req).code # OK
  /\ LegFailed("scrape", handle(session.type, session.req).code)
  /\ UNCHANGED <<upstream, resources, users, last>>

\* the fetch is abandoned because the group's context was cancelled
ScrapeLegCancelled ==
  /\ session.pc = "legs" /\ session.scrape = "running"
  /\ session.ctx = "cancelled"
  /\ LegFailed("scrape", Internal)
  /\ UNCHANGED <<upstream, resources, users, last>>

\* the second goroutine: the store answers with the row or with ErrNotFound
LookupLegSucceeds ==
  /\ session.pc = "legs" /\ session.lookup = "running"
  /\ LET data == StoreGetResource(resources, session.user, session.req.path)
     IN session' = [session EXCEPT !.lookup = "ok",
                                   !.userData = IF data.err = OK THEN data.row ELSE @]
  /\ UNCHANGED <<upstream, resources, users, last>>

\* the store fails with any other error (a cancelled context included)
LookupLegFails ==
  /\ session.pc = "legs" /\ session.lookup = "running"
  /\ LegFailed("lookup", Internal)
  /\ UNCHANGED <<upstream, resources, users, last>>

\* grp.Wait() returns once both goroutines have returned
WaitReturnsError ==
  /\ session.pc = "legs"
  /\ session.scrape # "running" /\ session.lookup # "running"
  /\ session.err # OK
  /\ session' = [session EXCEPT !.pc = "returned", !.out = GetError(session.err)]
  /\ UNCHANGED <<upstream, resources, users, last>>

WaitReturnsAndHydrates ==
  /\ session.pc = "legs"
  /\ session.scrape # "running" /\ session.lookup # "running"
  /\ session.err = OK
  /\ session' = [session EXCEPT
                   !.pc = "returned",
                   !.hydratedAfter = {session.scrape, session.lookup},
                   !.out = GetResponse(hydrate(session.type, session.res, session.userData))]
  /\ UNCHANGED <<upstream, resources, users, last>>

InitJoin ==
  /\ upstream = OpsSite
  /\ resources \in StoreSeeds
  /\ users = TheUsers
  /\ \E type \in JoinTypes, user \in {1, 2} :
       \E path \in JoinPaths(type) : session = JoinStart(type, user, path)
  /\ last = [op |-> "none"]

NextJoin ==
  \/ ScrapeLegSucceeds \/ ScrapeLegFails \/ ScrapeLegCancelled
  \/ LookupLegSucceeds \/ LookupLegFails
  \/ WaitReturnsError \/ WaitReturnsAndHydrates

SpecJoin == InitJoin /\ [][NextJoin]_vars

\* ------------------------------------------- the Scraper on its own
\* Scraper.ListEntries against category pages of any shape: with or without
\* the scroll marker, with or without rows, asked for the first or a later
\* upstream page
MaxScrapedRows == 2

ScrapedPage(k, n) ==
  [i \in 1..n |-> [path |-> EntryBase + MaxScrapedRows * (k - 1) + i, kind |-> "STORY",
                   update_time |-> 1]]

ScrapeSites ==
  { [categories |-> <<ListedCategory>>, pages |-> pages, scroll |-> scroll, chapters |-> <<>>] :
      pages \in { <<ScrapedPage(1, n)>> : n \in 0..MaxScrapedRows } \cup
                { <<ScrapedPage(1, n), ScrapedPage(2, m)>> :
                    n \in 0..MaxScrapedRows, m \in 0..MaxScrapedRows },
      scroll \in BOOLEAN }

ScrapeTokens ==
  { <<>>,
    ToToken(EntriesTkn(1, EntryBase + 1, SomeTime(1))).tkn,
    ToToken(EntriesTkn(2, EntryBase + 1, SomeTime(1))).tkn }

ScrapeListEntries ==
  /\ last.op = "request"
  /\ last' = [op |-> "Scraper.ListEntries", req |-> last.req,
              out |-> ScraperListEntries(last.req)]
  /\ UNCHANGED <<upstream, resources, users, session>>

InitScrape ==
  /\ upstream \in ScrapeSites
  /\ resources = {}
  /\ users = TheUsers
  /\ session = IdleSession
  /\ \E tkn \in ScrapeTokens :
       last = [op |-> "request", req |-> ListRequest(ListedCategory, tkn, 0, "")]

NextScrape == ScrapeListEntries

SpecScrape == InitScrape /\ [][NextScrape]_vars

\* -------------------------------------------- cursors on their own
\* applyToken on a results list and a token that need not come from it: the
\* upstream may have changed between the call that issued the token and the
\* call that carries it
ChapterSeqs ==
  { s \in UNION { [1..n -> ChapterPaths] : n \in 0..MaxChapters } : NoDup(s) }

CursorLists(schema) ==
  CASE schema = "categories" ->
         { [i \in 1..Len(s) |-> Category(s[i])] : s \in CategorySeqs }
    [] schema = "entries" ->
         { [i \in 1..n |-> Entry([path |-> EntryBase + i, kind |-> "STORY",
                                   update_time |-> RowTime(profile, i, n)])] :
             <<n, profile>> \in (0..MaxEntries) \X TimeProfiles }
    [] schema = "chapters" ->
         { [i \in 1..Len(s) |-> Chapter([path |-> s[i], update_time |-> 1])] :
             s \in ChapterSeqs }

CursorTokens(schema) ==
  CASE schema = "categories" -> { CategoriesTkn(a) : a \in CategoryPaths }
    [] schema = "entries" ->
         { EntriesTkn(1, a, SomeTime(t)) : a \in EntryPaths, t \in 0..(MaxEntries + 1) }
    [] schema = "chapters" -> { ChaptersTkn(a) : a \in ChapterPaths }

ApplyTokenStep(schema) ==
  /\ last' = [op |-> "applyToken", schema |-> schema, results |-> last.results,
              tkn |-> last.tkn,
              out |-> applyToken(ToToken(last.tkn).tkn, schema, ListResponse(last.results, <<>>))]
  /\ UNCHANGED <<upstream, resources, users, session>>

ApplyCategoriesToken ==
  /\ last.op = "cursor" /\ last.schema = "categories"
  /\ ApplyTokenStep("categories")

ApplyEntriesToken ==
  /\ last.op = "cursor" /\ last.schema = "entries"
  /\ ApplyTokenStep("entries")

ApplyChaptersToken ==
  /\ last.op = "cursor" /\ last.schema = "chapters"
  /\ ApplyTokenStep("chapters")

InitCursor ==
  /\ upstream = OpsSite
  /\ resources = {}
  /\ users = TheUsers
  /\ session = IdleSession
  /\ \E schema \in {"categories", "entries", "chapters"} :
       \E results \in CursorLists(schema), tkn \in CursorTokens(schema) :
         last = [op |-> "cursor", schema |-> schema, results |-> results, tkn |-> tkn]

NextCursor == ApplyCategoriesToken \/ ApplyEntriesToken \/ ApplyChaptersToken

SpecCursor == InitCursor /\ [][NextCursor]_vars

\* --------------------------------------------- two updates at the same time
\* The server runs every request on its own goroutine, and updateResource
\* talks to the store in separate statements: GetResource, then
\* UpsertResource of the whole row, then the re-read of the Get handler.
\* Two UpdateEntry calls of one user on one path take these steps in any
\* order.  session.calls[c] holds call c's request, its position, the row
\* it loaded and its answer.
RaceCalls == {1, 2}
RaceUser == CHOOSE u \in TheUsers : u.ID = 1

RaceMasks ==
  { Mask(<<"hidden">>), Mask(<<"starred">>), Mask(<<"view_time">>), Mask(<<"read_time">>),
    Mask(<<"starred", "read_time">>) }

MaskPaths(mask) == { mask.paths[i] : i \in 1..Len(mask.paths) }

RaceCall(resource, mask) ==
  [req |-> UpdateRequest(ListedEntry, resource, mask), pc |-> "start",
   dbRes |-> ZeroResource(0, 0), code |-> OK]

\* updateResource up to store.GetResource: the row, or the zero row keyed
\* to caller and path when there is none
RaceGetResource ==
  \E c \in RaceCalls :
    LET call == session.calls[c]
        got == StoreGetResource(resources, RaceUser.ID, call.req.path)
        dbRes == IF got.err = NotFound THEN ZeroResource(RaceUser.ID, call.req.path)
                 ELSE got.row
    IN /\ session.op = "race" /\ call.pc = "start"
       /\ session' = [session EXCEPT !.calls[c].pc = "loaded", !.calls[c].dbRes = dbRes]
       /\ last' = [n |-> last.n + 1, op |-> "GetResource", call |-> c]
       /\ UNCHANGED <<upstream, resources, users>>

\* the rest of updateResource: the mask is checked and applied to the row
\* loaded earlier, and the whole row is upserted
RaceUpsertResource ==
  \E c \in RaceCalls :
    LET call == session.calls[c]
        upd == update("Entry", call.dbRes, call.req.resource, call.req.update_mask.paths)
    IN /\ session.op = "race" /\ call.pc = "loaded"
       /\ MaskIsValid(call.req.update_mask, "Entry")
       /\ Len(call.req.update_mask.paths) # 0
       /\ upd.err = OK
       /\ resources' = StoreUpsertResource(resources, upd.resource)
       /\ session' = [session EXCEPT !.calls[c].pc = "stored"]
       /\ last' = [n |-> last.n + 1, op |-> "UpsertResource", call |-> c]
       /\ UNCHANGED <<upstream, users>>

\* the re-read through GetEntry that produces the answer
RaceGetEntry ==
  \E c \in RaceCalls :
    LET call == session.calls[c]
        got == HydratorGetEntry(resources, RaceUser.ID, [path |-> call.req.path])
    IN /\ session.op = "race" /\ call.pc = "stored"
       /\ session' = [session EXCEPT !.calls[c].pc = "done", !.calls[c].code = got.code]
       /\ last' = [n |-> last.n + 1, op |-> "GetEntry", call |-> c]
       /\ UNCHANGED <<upstream, resources, users>>

InitRace ==
  /\ upstream = OpsSite
  /\ resources \in StoreSeeds
  /\ users = TheUsers
  /\ \E r1 \in EntryBodies, r2 \in EntryBodies, m1 \in RaceMasks, m2 \in RaceMasks :
       /\ MaskPaths(m1) \cap MaskPaths(m2) = {}
       /\ session = [op |-> "race", calls |-> <<RaceCall(r1, m1), RaceCall(r2, m2)>>]
  /\ last = [n |-> 0, op |-> "none"]

NextRace == RaceGetResource \/ RaceUpsertResource \/ RaceGetEntry

SpecRace == InitRace /\ [][NextRace]_vars

\* ------------------------------------------------------- slugs and paths
\* A string is the sequence of the segments its slashes separate ("foo/" is
\* <<foo, empty>>); a segment is a sequence of characters.  The collection
\* names are written as one lower-case character each.
MaxDepth == 3

ErrInvalidPath == "invalid path"
ErrInvalidSlug == "invalid slug"

categoryCollection == <<"categories">>
entryCollection == <<"entries">>
chapterCollection == <<"chapters">>
Collections == <<categoryCollection, entryCollection, chapterCollection>>

UpperChars == {"A"}
LowerChars == {"a", "b", "categories", "entries", "chapters"}
PunctChars == {"-"}

\* resourceIDPattern on one segment: [a-zA-Z0-9]([a-z0-9-.]{0,61}[a-z0-9])?
resourceIDPattern(seg) ==
  /\ Len(seg) >= 1 /\ Len(seg) <= 63
  /\ seg[1] \in UpperChars \cup LowerChars
  /\ Len(seg) > 1 =>
       /\ seg[Len(seg)] \in LowerChars
       /\ \A i \in 2..(Len(seg) - 1) : seg[i] \in LowerChars \cup PunctChars

\* the patterns and formats of the three depths
categoryPathPattern == [kind |-> "path", depth |-> 1]
categorySlugPattern == [kind |-> "slug", depth |-> 1]
entryPathPattern == [kind |-> "path", depth |-> 2]
entrySlugPattern == [kind |-> "slug", depth |-> 2]
chapterPathPattern == [kind |-> "path", depth |-> 3]
chapterSlugPattern == [kind |-> "slug", depth |-> 3]

categoryMatchIndices == <<1>>
entryMatchIndices == <<1, 3>>
chapterMatchIndices == <<1, 3, 5>>

\* patternMustCompile: the pattern anchored at both ends, with "/?" before
\* the end when asked for
patternMustCompile(pattern, optionalTrailingSlash) ==
  [kind |-> pattern.kind, depth |-> pattern.depth, slash |-> optionalTrailingSlash]

categoryPath == patternMustCompile(categoryPathPattern, FALSE)
entryPath == patternMustCompile(entryPathPattern, FALSE)
chapterPath == patternMustCompile(chapterPathPattern, FALSE)
categorySlug == patternMustCompile(categorySlugPattern, TRUE)
entrySlug == patternMustCompile(entrySlugPattern, TRUE)
chapterSlug == patternMustCompile(chapterSlugPattern, FALSE)

\* the segments the pattern's resource ids have to match, or <<>> when the
\* string does not have the pattern's shape
IdSegments(pattern, from) ==
  LET body == IF pattern.slash /\ Len(from) > 1 /\ from[Len(from)] = <<>>
                THEN SubSeq(from, 1, Len(from) - 1) ELSE from
  IN IF pattern.kind = "slug"
       THEN (IF Len(body) = pattern.depth THEN body ELSE <<>>)
     ELSE IF /\ Len(body) = 2 * pattern.depth
             /\ \A i \in 1..pattern.depth : body[2 * i - 1] = Collections[i]
       THEN [i \in 1..pattern.depth |-> body[2 * i]]
     ELSE <<>>

\* pattern.FindStringSubmatch: <<>> when there is no match, else the whole
\* match followed, for each resource id, by the id and by what its inner
\* group took (the id without its first character)
FindStringSubmatch(pattern, from) ==
  LET ids == IdSegments(pattern, from)
  IN IF ids = <<>> \/ \E i \in 1..Len(ids) : ~resourceIDPattern(ids[i]) THEN <<>>
     ELSE <<from>> \o [k \in 1..(2 * Len(ids)) |->
                        IF k % 2 = 1 THEN ids[(k + 1) \div 2] ELSE Tail(ids[k \div 2])]

\* fmt.Sprintf with a path format (collection/%s ...) or a slug format (%s/%s ...)
Sprintf(format, args) ==
  IF format = "path"
    THEN [k \in 1..(2 * Len(args)) |->
            IF k % 2 = 1 THEN Collections[(k + 1) \div 2] ELSE args[k \div 2]]
    ELSE args

\* a convert that reads the submatches one after the other
convertAdjacentGroups(from, pattern, format, matchErr, matchIndices) ==
  LET matches == FindStringSubmatch(pattern, from)
  IN IF Len(matches) = 0 THEN [err |-> matchErr, to |-> <<>>]
     ELSE [err |-> OK,
           to |-> Sprintf(format, [i \in 1..Len(matchIndices) |-> matches[i + 1]])]

\* convert (matches[index] is matches[index + 1] here)
convert(from, pattern, format, matchErr, matchIndices) ==
  LET matches == FindStringSubmatch(pattern, from)
  IN IF Len(matches) = 0 THEN [err |-> matchErr, to |-> <<>>]
     ELSE [err |-> OK,
           to |-> Sprintf(format, [i \in 1..Len(matchIndices) |-> matches[matchIndices[i] + 1]])]

toPath(slug, pattern, matchIndices) == convert(slug, pattern, "path", ErrInvalidSlug, matchIndices)
toSlug(path, pattern, matchIndices) == convert(path, pattern, "slug", ErrInvalidPath, matchIndices)

ToCategoryPath(slug) == toPath(slug, categorySlug, categoryMatchIndices)
ToEntryPath(slug) == toPath(slug, entrySlug, entryMatchIndices)
ToChapterPath(slug) == toPath(slug, chapterSlug, chapterMatchIndices)
FromCategoryPath(path) == toSlug(path, categoryPath, categoryMatchIndices)
FromEntryPath(path) == toSlug(path, entryPath, entryMatchIndices)
FromChapterPath(path) == toSlug(path, chapterPath, chapterMatchIndices)

\* the strings the converters are given
SlugSegments == { <<>>, <<"a">>, <<"A", "b">>, <<"a", "-">> }
PathIds == { <<"a">>, <<"A", "-", "b">>, <<"b", "-">> }
SlugInputs == UNION { [1..n -> SlugSegments] : n \in 1..(MaxDepth + 1) }
PathPairs == UNION { [1..n -> (1..3) \X PathIds] : n \in 1..MaxDepth }
PathOf(pairs) ==
  [k \in 1..(2 * Len(pairs)) |->
     IF k % 2 = 1 THEN Collections[pairs[(k + 1) \div 2][1]] ELSE pairs[k \div 2][2]]
PathInputs ==
  { PathOf(pairs) : pairs \in PathPairs }
  \cup { PathOf(pairs) \o <<extra>> : pairs \in PathPairs, extra \in {<<>>, <<"a">>} }
  \cup { SubSeq(PathOf(pairs), 1, 2 * Len(pairs) - 1) : pairs \in PathPairs }

\* one conversion and its way back
Convert(op, out, back) ==
  /\ last.op = "string"
  /\ last' = [last EXCEPT !.op = op, !.out = out,
                           !.back = IF out.err = OK THEN back ELSE out]
  /\ UNCHANGED <<upstream, resources, users, session>>

ToCategoryPathStep ==
  /\ last.kind = "slug"
  /\ Convert("ToCategoryPath", ToCategoryPath(last.input),
             FromCategoryPath(ToCategoryPath(last.input).to))
ToEntryPathStep ==
  /\ last.kind = "slug"
  /\ Convert("ToEntryPath", ToEntryPath(last.input), FromEntryPath(ToEntryPath(last.input).to))
ToChapterPathStep ==
  /\ last.kind = "slug"
  /\ Convert("ToChapterPath", ToChapterPath(last.input),
             FromChapterPath(ToChapterPath(last.input).to))
FromCategoryPathStep ==
  /\ last.kind = "path"
  /\ Convert("FromCategoryPath", FromCategoryPath(last.input),
             ToCategoryPath(FromCategoryPath(last.input).to))
FromEntryPathStep ==
  /\ last.kind = "path"
  /\ Convert("FromEntryPath", FromEntryPath(last.input),
             ToEntryPath(FromEntryPath(last.input).to))
FromChapterPathStep ==
  /\ last.kind = "path"
  /\ Convert("FromChapterPath", FromChapterPath(last.input),
             ToChapterPath(FromChapterPath(last.input).to))

InitSlugconv ==
  /\ upstream = OpsSite
  /\ resources = {}
  /\ users = TheUsers
  /\ session = IdleSession
  /\ \E kind \in {"slug", "path"} :
       \E input \in IF kind = "slug" THEN SlugInputs ELSE PathInputs :
         last = [op |-> "string", kind |-> kind, input |-> input,
                 out |-> [err |-> OK, to |-> <<>>], back |-> [err |-> OK, to |-> <<>>]]

NextSlugconv ==
  \/ ToCategoryPathStep \/ ToEntryPathStep \/ ToChapterPathStep
  \/ FromCategoryPathStep \/ FromEntryPathStep \/ FromChapterPathStep

SpecSlugconv == InitSlugconv /\ [][NextSlugconv]_vars

\* ------------------------------------------------------- paging properties
SchemaOf(op) ==
  CASE op = "ListCategories" -> "categories"
    [] op = "ListEntries" -> "entries"
    [] op = "ListChapters" -> "chapters"

\* the full result set of the session's listing, as the session user sees
\* it: every row of every upstream page, in upstream order
FullResultSet ==
  LET user == SessionUser
      row(p) == CHOOSE r \in resources : r.User = user /\ r.Path = p
      has(p) == \E r \in resources : r.User = user /\ r.Path = p
      rows == Flatten(upstream.pages)
  IN CASE session.op = "ListCategories" ->
            [i \in 1..Len(upstream.categories) |->
               LET c == Category(upstream.categories[i])
               IN IF has(c.path) THEN hydrateCategory(c, row(c.path)) ELSE c]
       [] session.op = "ListEntries" ->
            [i \in 1..Len(rows) |->
               LET e == Entry(rows[i])
               IN IF has(e.path) THEN hydrateEntry(e, row(e.path)) ELSE e]
       [] session.op = "ListChapters" ->
            [i \in 1..Len(upstream.chapters) |-> Chapter(upstream.chapters[i])]

SessionFilterCompiles ==
  session.filter = "" \/ compileFilter(SchemaOf(session.op), session.filter)

\* the paths of the filter-satisfying elements of the full result set
WantedPaths ==
  PathsOf(IF session.filter = "" THEN FullResultSet
          ELSE SelectSeq(FullResultSet, LAMBDA el : EvalFilter(session.filter, el)))

IsPrefix(s, t) == Len(s) <= Len(t) /\ SubSeq(t, 1, Len(s)) = s

ReturnedPaths == Flatten(session.pages)

\* C1: for ListCategories, ListEntries and ListChapters over an unchanging
\* upstream, any compiling filter and any max_page_size N > 0, following
\* next_page_token from the empty token returns the filter-satisfying
\* elements of the full result set in order, without duplicates or
\* omissions, and ends with a successful response whose token is empty.
C1_FollowingTokensReconstructs ==
  (session.max_page_size > 0 /\ SessionFilterCompiles) =>
    /\ session.pc # "failed"
    /\ IsPrefix(ReturnedPaths, WantedPaths)
    /\ session.pc = "done" => ReturnedPaths = WantedPaths
    /\ session.pc = "run" => Len(session.pages) < MaxCalls

\* the rows of the listed category, and how many of them have a kind
CategoryRows == Flatten(upstream.pages)
CountKind(kind) == Cardinality({ i \in 1..Len(CategoryRows) : CategoryRows[i].kind = kind })
KindOfPath(path) == (CHOOSE i \in 1..Len(CategoryRows) : CategoryRows[i].path = path)

\* the scenario of C2: a category served as one page without scroll marker,
\* holding three STORY and two ANTHOLOGY entries in some order, listed
\* with filter "this.kind == STORY" and max_page_size 1
StoryScenario ==
  /\ session.op = "ListEntries"
  /\ session.filter = FilterKindStory
  /\ session.max_page_size = 1
  /\ Len(upstream.pages) = 1 /\ ~upstream.scroll
  /\ CountKind("STORY") = 3 /\ CountKind("ANTHOLOGY") = 2

\* C2: in the scenario each of the first three calls returns exactly one
\* STORY, the three are distinct, and the listing then ends with an empty
\* next_page_token (on the third response, or on a fourth that returns
\* nothing more); no call fails.
C2_OneStoryPerCall ==
  StoryScenario =>
    /\ session.pc # "failed"
    /\ \A k \in 1..Len(session.pages) :
         k <= 3 => /\ Len(session.pages[k]) = 1
                   /\ CategoryRows[KindOfPath(session.pages[k][1])].kind = "STORY"
    /\ NoDup(ReturnedPaths)
    /\ Len(session.pages) < 3 => session.pc = "run"
    /\ Len(session.pages) > 3 =>
         Len(session.pages) = 4 /\ session.pages[4] = <<>> /\ session.pc = "done"

\* --------------------------------------------- properties of single calls
UpdateOps == {"UpdateCategory", "UpdateEntry", "UpdateChapter"}

HasRecord(table, user, path) == \E r \in table : r.User = user /\ r.Path = path
RecordOf(table, user, path) == CHOOSE r \in table : r.User = user /\ r.Path = path
RecordOrDefault(table, user, path) ==
  IF HasRecord(table, user, path) THEN RecordOf(table, user, path)
  ELSE [User |-> user, Path |-> path, Hidden |-> FALSE, Starred |-> FALSE,
        ViewTime |-> NoTime, ReadTime |-> NoTime]
RecordsOfUser(table, user) == { r \in table : r.User = user }
PlainList(parent) == ListRequest(parent, <<>>, 0, "")

\* what user b is served, given the store's table: the three Get calls and
\* the three hydrated listings
ServedTo(b) ==
  <<HydratorGetCategory(resources, b, [path |-> ListedCategory]),
    HydratorGetEntry(resources, b, [path |-> ListedEntry]),
    HydratorGetChapter(resources, b, [path |-> ChapterBase + 1]),
    HydratorListCategories(b, PlainList(0)),
    HydratorListEntries(b, PlainList(ListedCategory)),
    HydratorListChapters(b, PlainList(ListedEntry))>>

\* C6: an Update call by user A on a path writes no record but the one keyed
\* (A, path); every record of another user B is left as it was, and what B is
\* served by the Get and List calls is the same before and after the call.
C6_UpdatesAreIsolated ==
  [][ (last'.op \in UpdateOps /\ resources' # resources) =>
        /\ \A r \in (resources' \ resources) \cup (resources \ resources') :
             r.User = last'.user.ID /\ r.Path = last'.req.path
        /\ \A b \in users : b.ID # last'.user.ID =>
             /\ RecordsOfUser(resources', b.ID) = RecordsOfUser(resources, b.ID)
             /\ ServedTo(b.ID)' = ServedTo(b.ID) ]_vars

\* user 1 has updated the entry user 2 keeps a different record of
C6_Witness ==
  /\ last.op = "UpdateEntry" /\ last.out.code = OK /\ last.user.ID = 1
  /\ HasRecord(resources, 2, last.req.path) /\ HasRecord(resources, 1, last.req.path)
  /\ RecordOf(resources, 2, last.req.path).Starred # RecordOf(resources, 1, last.req.path).Starred

\* C7: GetUser, UpdateUser and DeleteUser with a path that is not the
\* caller's own fail with PermissionDenied and leave the user store as it
\* was; ListUsers fails with PermissionDenied whatever the request.
C7_OnlyOwnUser ==
  [][ /\ (last'.op \in {"GetUser", "UpdateUser", "DeleteUser"}
            /\ last'.req.path # UserPath(last'.user)) =>
           last'.out.code = PermissionDenied /\ users' = users
      /\ last'.op = "ListUsers" => last'.out.code = PermissionDenied /\ users' = users ]_vars

\* a user asked to delete the other user and was refused
C7_Witness ==
  /\ last.op = "DeleteUser" /\ last.req.path # UserPath(last.user)
  /\ last.out.code = PermissionDenied
  /\ \E u \in users : UserPath(u) = last.req.path

\* C8: after a successful UpdateEntry by user U on path P with mask M, the
\* stored record of (U, P) has the request's value in every field M names and,
\* in each of hidden, starred, view_time and read_time that M does not name, the
\* value the record had before the call (false or unset when there was none).
C8_UpdateEntryFrame ==
  [][ (last'.op = "UpdateEntry" /\ last'.out.code = OK) =>
        LET U == last'.user.ID
            P == last'.req.path
            M == Range(last'.req.update_mask.paths)
            sent == last'.req.resource
            before == RecordOrDefault(resources, U, P)
        IN /\ HasRecord(resources', U, P)
           /\ LET after == RecordOf(resources', U, P)
              IN /\ after.Hidden = IF "hidden" \in M THEN sent.hidden ELSE before.Hidden
                 /\ after.Starred = IF "starred" \in M THEN sent.starred ELSE before.Starred
                 /\ after.ViewTime = IF "view_time" \in M THEN sent.view_time ELSE before.ViewTime
                 /\ after.ReadTime = IF "read_time" \in M THEN sent.read_time ELSE before.ReadTime ]_vars

\* starred and read_time were written over a record whose hidden flag and
\* view_time were set, and both are still there
C8_Witness ==
  /\ last.op = "UpdateEntry" /\ last.out.code = OK
  /\ last.req.update_mask.paths = <<"starred", "read_time">>
  /\ last.req.resource.starred /\ ~last.req.resource.hidden
  /\ HasRecord(resources, last.user.ID, last.req.path)
  /\ RecordOf(resources, last.user.ID, last.req.path).Hidden
  /\ RecordOf(resources, last.user.ID, last.req.path).ViewTime.Valid

\* the structural fields a fresh scrape of the site gives the three resources
SiteKind(path) == IF path = ListedEntry /\ Len(upstream.chapters) > 0 THEN "ANTHOLOGY" ELSE "STORY"
SiteEntryTime(path) ==
  LET rows == Flatten(upstream.pages)
  IN rows[CHOOSE i \in 1..Len(rows) : rows[i].path = path].update_time
SiteChapterTime(path) ==
  upstream.chapters[CHOOSE i \in 1..Len(upstream.chapters) :
                      upstream.chapters[i].path = path].update_time
Shown(stored) == IF stored.Valid THEN stored ELSE NoTime

\* C9: the response of a successful Update call is the resource as read after
\* the upsert: the interaction fields are those of the caller's record as the
\* call left it, the structural fields those of the site.
C9_UpdateReturnsReRead ==
  (last.op \in UpdateOps /\ last.out.code = OK) =>
    /\ HasRecord(resources, last.user.ID, last.req.path)
    /\ LET row == RecordOf(resources, last.user.ID, last.req.path)
           path == last.req.path
       IN last.out.msg =
            CASE last.op = "UpdateCategory" ->
                   [path |-> path, display_name |-> DisplayName(path),
                    description |-> Description(path), hidden |-> row.Hidden]
              [] last.op = "UpdateEntry" ->
                   [path |-> path, display_name |-> DisplayName(path), kind |-> SiteKind(path),
                    update_time |-> SiteEntryTime(path), starred |-> row.Starred,
                    hidden |-> row.Hidden, view_time |-> Shown(row.ViewTime),
                    read_time |-> Shown(row.ReadTime)]
              [] last.op = "UpdateChapter" ->
                   [path |-> path, display_name |-> DisplayName(path),
                    update_time |-> SiteChapterTime(path), view_time |-> Shown(row.ViewTime),
                    read_time |-> Shown(row.ReadTime)]

\* an UpdateEntry that changed the stored flag answers with the new value
C9_Witness ==
  /\ last.op = "UpdateEntry" /\ last.out.code = OK
  /\ last.req.update_mask.paths = <<"hidden">>
  /\ last.out.msg.hidden = last.req.resource.hidden
  /\ last.n = 1 /\ last.user.ID = 2 /\ last.out.msg.hidden /\ last.out.msg.starred

\* the paths each Update call accepts
UpdatablePaths(op) ==
  CASE op = "UpdateCategory" -> {"hidden"}
    [] op = "UpdateEntry" -> {"hidden", "starred", "view_time", "read_time"}
    [] op = "UpdateChapter" -> {"view_time", "read_time"}

\* C10: an Update call whose mask is empty, or names a path outside the
\* updatable fields of its resource, fails with InvalidArgument and writes
\* nothing to the store.
C10_BadMaskRejected ==
  [][ (/\ last'.op \in UpdateOps
       /\ \/ last'.req.update_mask.paths = <<>>
          \/ ~(Range(last'.req.update_mask.paths) \subseteq UpdatablePaths(last'.op))) =>
        /\ last'.out.code = InvalidArgument
        /\ resources' = resources
        /\ "store_write" \notin last'.out.touched ]_vars

\* a mask naming an updatable field next to one that is not was refused
C10_Witness ==
  /\ last.op = "UpdateEntry" /\ last.req.update_mask.paths = <<"hidden", "display_name">>
  /\ last.out.code = InvalidArgument
  /\ "store_write" \notin last.out.touched

\* ------------------------------------------ properties of the boundary
\* a page_token that is not base64, does not unmarshal into the operation's
\* token message, or fails that message's rules
InvalidToken(tkn, schema) ==
  \/ \E i \in 1..Len(tkn) : tkn[i] \notin B64Chars
  \/ LET data == [i \in 1..Len(tkn) |-> tkn[i] - B64Lo]
     IN \/ Len(data) % 2 = 1
        \/ \E i \in 1..Len(data) : i % 2 = 1 /\ data[i] = 0
        \/ ~ValidTkn(Unmarshal(data, schema))

\* the server's answer to the same request without a token
TokenlessAnswer ==
  LET req == [last.req EXCEPT !.page_token = <<>>]
  IN CASE last.op = "ListCategories" -> ListCategoriesHandler(last.user.ID, req)
       [] last.op = "ListEntries" -> ListEntriesHandler(last.user.ID, req)
       [] last.op = "ListChapters" -> ListChaptersHandler(last.user.ID, req)

C4_InvalidRequestStopsAtValidator ==
  [][ (last'.n = 1 /\ ~last'.reqValid) =>
        /\ last'.out.code = InvalidArgument
        /\ ~last'.out.invoked
        /\ last'.out.touched = {}
        /\ resources' = resources /\ users' = users ]_vars

\* an UpdateEntry the handler would have stored was stopped
C4_Witness ==
  /\ last.op = "UpdateEntry" /\ ~last.reqValid
  /\ last.out.code = InvalidArgument
  /\ last.handled.code = OK /\ "store_write" \in last.handled.touched
  /\ last.handled.resources # resources

\* C5: for every operation, a response that fails validation is returned to
\* the client unchanged and without an error (a warning is logged), and a
\* handler's error is returned unchanged.
C5_ResponseValidationOnlyWarns ==
  (last.n = 1 /\ last.reqValid) =>
    /\ last.out.code = last.handled.code
    /\ last.out.msg = last.handled.msg
    /\ last.out.invoked
    /\ last.out.warned = (last.handled.code = OK /\ ~last.resValid)

\* a listing whose response failed validation came back all the same
C5_Witness ==
  /\ last.op = "ListEntries" /\ last.reqValid /\ ~last.resValid
  /\ last.out.code = OK /\ last.out.warned
  /\ Len(last.out.msg.results) = 2

\* ------------------------------------------------ properties of hydration
GetOps == {"GetCategory", "GetEntry", "GetChapter"}

\* what the Scraper alone answers to the last Get or List request
ScrapedGet ==
  CASE last.op = "GetCategory" -> ScraperGetCategory(last.req)
    [] last.op = "GetEntry" -> ScraperGetEntry(last.req)
    [] last.op = "GetChapter" -> ScraperGetChapter(last.req)

ScrapedList ==
  CASE last.op = "ListCategories" -> ScraperListCategories(last.req)
    [] last.op = "ListEntries" -> ScraperListEntries(last.req)
    [] last.op = "ListChapters" -> ScraperListChapters(last.req)

\* the interaction fields a message has are all at their defaults
AtDefaults(msg) ==
  /\ "hidden" \in DOMAIN msg => ~msg.hidden
  /\ "starred" \in DOMAIN msg => ~msg.starred
  /\ "view_time" \in DOMAIN msg => msg.view_time = NoTime
  /\ "read_time" \in DOMAIN msg => msg.read_time = NoTime

\* C11: a Get call on a resource the caller has no record of answers as the
\* Scraper does, without an error of its own, and the message has hidden and
\* starred false and no view_time or read_time; in a List response every
\* element the caller has no record of has these defaults, and hydration adds
\* no error to the listing.
C11_NoRecordHydratesDefaults ==
  /\ (/\ last.op \in GetOps /\ last.reqValid
       /\ ~HasRecord(resources, last.user.ID, last.req.path)) =>
        /\ last.out.code = ScrapedGet.code
        /\ ScrapedGet.code = OK =>
             last.out.msg = ScrapedGet.msg /\ AtDefaults(last.out.msg)
  /\ (last.op \in ListOps /\ last.reqValid) =>
        /\ last.req.page_token = <<>> => last.out.code = ScrapedList.code
        /\ last.out.code = OK =>
             \A i \in 1..Len(last.out.msg.results) :
               ~HasRecord(resources, last.user.ID, last.out.msg.results[i].path) =>
                 AtDefaults(last.out.msg.results[i])

\* user 1 read a category only user 2 keeps a record of
C11_Witness ==
  /\ last.op = "GetCategory" /\ last.reqValid /\ last.user.ID = 1
  /\ HasRecord(resources, 2, last.req.path) /\ RecordOf(resources, 2, last.req.path).Hidden
  /\ ~HasRecord(resources, 1, last.req.path)
  /\ last.out.code = OK /\ ~last.out.msg.hidden

\* the fields of a message that come from the site
InteractionFields == {"hidden", "starred", "view_time", "read_time"}
Structural(msg) == [f \in DOMAIN msg \ InteractionFields |-> msg[f]]

HydratedList ==
  CASE last.op = "ListCategories" -> HydratorListCategories(last.user.ID, last.req)
    [] last.op = "ListEntries" -> HydratorListEntries(last.user.ID, last.req)
    [] last.op = "ListChapters" -> HydratorListChapters(last.user.ID, last.req)

\* the scrape an Update call's answer is hydrated from
ScrapedForUpdate ==
  CASE last.op = "UpdateCategory" -> ScraperGetCategory([path |-> last.req.path])
    [] last.op = "UpdateEntry" -> ScraperGetEntry([path |-> last.req.path])
    [] last.op = "UpdateChapter" -> ScraperGetChapter([path |-> last.req.path])

\* C12: in the response of every Get and Update call the structural fields
\* (path, display_name, description, kind, update_time) are those of the
\* Scraper's message; a hydrated listing has the Scraper's code, token, length
\* and order and differs from it in interaction fields only, and every
\* element a List call returns has the structural fields of the Scraper's
\* element of that path.
C12_StructuralFieldsKept ==
  /\ (last.op \in GetOps /\ last.reqValid /\ last.out.code = OK) =>
        ScrapedGet.code = OK /\ Structural(last.out.msg) = Structural(ScrapedGet.msg)
  /\ (last.op \in UpdateOps /\ last.reqValid /\ last.out.code = OK) =>
        /\ ScrapedForUpdate.code = OK
        /\ Structural(last.out.msg) = Structural(ScrapedForUpdate.msg)
  /\ (last.op \in ListOps /\ last.reqValid) =>
        /\ HydratedList.code = ScrapedList.code
        /\ HydratedList.next_page_token = ScrapedList.next_page_token
        /\ Len(HydratedList.results) = Len(ScrapedList.results)
        /\ \A i \in 1..Len(ScrapedList.results) :
             Structural(HydratedList.results[i]) = Structural(ScrapedList.results[i])
        /\ last.out.code = OK =>
             \A i \in 1..Len(last.out.msg.results) :
               \E j \in 1..Len(ScrapedList.results) :
                 Structural(last.out.msg.results[i]) = Structural(ScrapedList.results[j])

\* an entry came back from an update with a view_time from the store and
\* the update_time of the site
C12_Witness ==
  /\ last.op = "UpdateEntry" /\ last.reqValid /\ last.out.code = OK
  /\ last.out.msg.view_time.Valid
  /\ last.out.msg.view_time.Time # last.out.msg.update_time
  /\ last.out.msg.update_time = ScrapedForUpdate.msg.update_time

\* ---------------------------------------------- properties of the user calls
\* C13: interaction records stay in the store while their user exists, and a
\* successful DeleteUser of user U leaves no record keyed to U and every
\* record of the other users as it was.
C13_DeleteCascades ==
  [][ /\ (last'.op = "DeleteUser" /\ last'.out.code = OK) =>
           /\ RecordsOfUser(resources', last'.user.ID) = {}
           /\ \A r \in resources : r.User # last'.user.ID => r \in resources'
      /\ \A r \in resources :
           (\E u \in users' : u.ID = r.User) => r \in resources' ]_vars

\* ----------------------------------------------- properties of timestamps
Parsed == last.op = "parseRowTimestamp" /\ last.out.err = OK

\* the year the inference rule gives a row in the recent form
InferredYear ==
  IF last.parent.year < last.now.year
    THEN (IF last.parent.month < last.row.month
            THEN last.parent.year - 1 ELSE last.parent.year)
  ELSE IF last.now.month < last.row.month THEN last.now.year - 1
  ELSE last.now.year

\* C14: parseRowTimestamp gives a row in the explicit-year form its stated
\* year and a row in the recent form the inferred year (the parent's year
\* when that is before the current year, one less when the parent's month is
\* before the row's; else last year when the current month is before the
\* row's; else the current year); month, day, hour and minute are those of
\* the row.
C14_YearInference ==
  Parsed =>
    /\ last.row.form = olderRowFormat => last.out.time.year = last.row.year
    /\ last.row.form = recentRowFormat => last.out.time.year = InferredYear
    /\ last.out.time.month = last.row.month
    /\ last.out.time.day = last.row.day
    /\ last.out.time.hour = last.row.hour
    /\ last.out.time.minute = last.row.minute

\* the year part of C14 alone
YearRule ==
  Parsed =>
    /\ last.row.form = olderRowFormat => last.out.time.year = last.row.year
    /\ last.row.form = recentRowFormat => last.out.time.year = InferredYear

\* the statement of C15 as the specification words it: with the parent a
\* year behind, the year is parent.year - 1 if the parent's month is after
\* the row's month
C15_AsStated ==
  (/\ Parsed /\ last.row.form = recentRowFormat
   /\ last.parent.year < last.now.year
   /\ last.parent.month > last.row.month) =>
    last.out.time.year = last.parent.year - 1

\* C15: for a row in the recent form whose parent was last modified in a year
\* before the current one, the year is parent.year - 1 if the parent's month
\* is before the row's month, and parent.year otherwise.
C15_ParentBehind ==
  (/\ Parsed /\ last.row.form = recentRowFormat
   /\ last.parent.year < last.now.year) =>
    last.out.time.year =
      IF last.parent.month < last.row.month
        THEN last.parent.year - 1 ELSE last.parent.year

\* "Feb 1 HH:04" under a parent last modified in January of last year
C15_Witness ==
  /\ Parsed /\ last.row.form = recentRowFormat
  /\ last.row.month = February /\ last.row.day = 1
  /\ last.parent.month = 1 /\ last.parent.year = last.now.year - 1
  /\ last.out.time.year = last.now.year - 2

\* ------------------------------------------- properties of slugs and paths
ToPathOps == {"ToCategoryPath", "ToEntryPath", "ToChapterPath"}
FromPathOps == {"FromCategoryPath", "FromEntryPath", "FromChapterPath"}

DepthOf(op) ==
  CASE op \in {"ToCategoryPath", "FromCategoryPath"} -> 1
    [] op \in {"ToEntryPath", "FromEntryPath"} -> 2
    [] op \in {"ToChapterPath", "FromChapterPath"} -> 3

HasTrailingSlash(str) == Len(str) > 1 /\ str[Len(str)] = <<>>
WithoutTrailingSlash(str) == IF HasTrailingSlash(str) THEN SubSeq(str, 1, Len(str) - 1) ELSE str

\* the number of segments of a string; a trailing slash ends the last one
NumSegments(str) == Len(WithoutTrailingSlash(str))

\* each converter refuses an input with the wrong number of segments
WrongSegmentCountRejected ==
  /\ (last.op \in ToPathOps /\ NumSegments(last.input) # DepthOf(last.op)) =>
        last.out.err = ErrInvalidSlug
  /\ (last.op \in FromPathOps /\ NumSegments(last.input) # 2 * DepthOf(last.op)) =>
        last.out.err = ErrInvalidPath
  /\ last.op \in ToPathOps => last.out.err \in {OK, ErrInvalidSlug}
  /\ last.op \in FromPathOps => last.out.err \in {OK, ErrInvalidPath}

\* the statement of C16 as the specification words it: the way back from an
\* accepted slug is that slug, whatever the slug
C16_AsStated ==
  /\ (last.op \in ToPathOps /\ last.out.err = OK) =>
        last.back.err = OK /\ last.back.to = last.input
  /\ (last.op \in FromPathOps /\ last.out.err = OK) =>
        last.back.err = OK /\ last.back.to = last.input
  /\ WrongSegmentCountRejected

\* C16: at each depth FromXPath(ToXPath(s)) is s without its trailing slash
\* for every slug s ToXPath accepts (so s itself when s has none, which is
\* every accepted chapter slug), ToXPath(FromXPath(p)) = p for every path p
\* FromXPath accepts, and each converter refuses an input with the wrong
\* number of segments, ToXPath with InvalidSlug and FromXPath with
\* InvalidPath.
C16_RoundTrip ==
  /\ (last.op \in ToPathOps /\ last.out.err = OK) =>
        /\ last.back.err = OK /\ last.back.to = WithoutTrailingSlash(last.input)
        /\ last.op = "ToChapterPath" => ~HasTrailingSlash(last.input)
  /\ (last.op \in FromPathOps /\ last.out.err = OK) =>
        last.back.err = OK /\ last.back.to = last.input
  /\ WrongSegmentCountRejected

\* an entry slug with a trailing slash went to its path and came back
\* without the slash
C16_Witness ==
  /\ last.op = "ToEntryPath" /\ last.out.err = OK
  /\ HasTrailingSlash(last.input)
  /\ last.input[1] # last.input[2]
  /\ last.back.to = <<last.input[1], last.input[2]>>

\* --------------------------------------------------- properties of tokens
\* a token some valid message of the schema encodes to, cut short
Truncated(tkn, schema) ==
  \E m \in TokenMessages :
    /\ m.schema = schema /\ ValidTkn(m)
    /\ Len(tkn) < Len(ToToken(m).tkn)
    /\ tkn = SubSeq(ToToken(m).tkn, 1, Len(tkn))

SessionHydrated ==
  CASE last.op = "ListCategories" -> HydratorListCategories(SessionUser, last.req)
    [] last.op = "ListEntries" -> HydratorListEntries(SessionUser, last.req)
    [] last.op = "ListChapters" -> HydratorListChapters(SessionUser, last.req)

\* the elements after the cursor of the last call's page_token
AfterCursor == applyToken(last.req.page_token, SchemaOf(last.op), SessionHydrated).results

\* the elements after the cursor that satisfy the last call's filter
Satisfying ==
  IF last.req.filter = "" THEN AfterCursor
  ELSE SelectSeq(AfterCursor, LAMBDA el : EvalFilter(last.req.filter, el))

\* the Paginator itself built the token of the last answer
PaginatorBuiltToken ==
  /\ last.req.max_page_size > 0
  /\ Len(Satisfying) >= last.req.max_page_size

\* C19: on every list call that succeeds, the results are the first
\* max_page_size elements (all of them when max_page_size <= 0) of the
\* filter-satisfying subsequence of the elements after the cursor, in their
\* original order, and a continuation token the Paginator builds names the
\* last returned element
C19_TokenFilterSize ==
  (last.op \in ListOps /\ last.out.code = OK) =>
    LET size == last.req.max_page_size
        results == last.out.msg.results
        tkn == FromToken(last.out.msg.next_page_token, SchemaOf(last.op))
    IN /\ results = IF size <= 0 \/ Len(Satisfying) < size THEN Satisfying
                    ELSE SubSeq(Satisfying, 1, size)
       /\ PaginatorBuiltToken =>
            /\ tkn.err = OK
            /\ tkn.msg.after = results[Len(results)].path
            /\ last.op = "ListEntries" =>
                 tkn.msg.start = SomeTime(results[Len(results)].update_time)

\* a call with a cursor, a filter that drops an element ahead of the page,
\* and a page cut by size
C19_Witness ==
  /\ last.op = "ListEntries" /\ last.out.code = OK
  /\ last.req.page_token # <<>>
  /\ last.req.filter = FilterKindStory
  /\ Len(AfterCursor) > Len(Satisfying)
  /\ Len(Satisfying) > last.req.max_page_size
  /\ last.req.max_page_size > 0
  /\ ~EvalFilter(last.req.filter, AfterCursor[1])
  /\ Len(last.out.msg.results) = last.req.max_page_size

\* the last answer carries a token although the wrapped handler returned
\* none: the Paginator constructed it
TokenConstructed ==
  /\ SessionHydrated.next_page_token = <<>>
  /\ last.out.msg.next_page_token # <<>>

\* the last answer's token is the wrapped handler's, untouched
TokenPassedThrough == last.out.msg.next_page_token = SessionHydrated.next_page_token

\* the last answer holds fewer elements than satisfy the filter after the cursor
ResultsTruncated == Len(last.out.msg.results) < Len(Satisfying)

\* C20: on a list call that succeeds the Paginator truncates the results and
\* constructs a continuation token exactly when max_page_size > 0 and the
\* number of filter-satisfying elements after the cursor exceeds
\* max_page_size; when the number does not exceed it, no token is constructed
C20_TokenOnlyWhenExceeded ==
  (last.op \in ListOps /\ last.out.code = OK) =>
    LET exceeds == /\ last.req.max_page_size > 0
                   /\ Len(Satisfying) > last.req.max_page_size
    IN /\ ResultsTruncated <=> exceeds
       /\ exceeds => last.out.msg.next_page_token # <<>>
       /\ ~exceeds => ~TokenConstructed

\* what applyPageSize does: results are dropped only beyond max_page_size
\* elements, a token is constructed from max_page_size elements on, and
\* below that the wrapped handler's token passes through
TokenFromPageSizeOn ==
  (last.op \in ListOps /\ last.out.code = OK) =>
    /\ ResultsTruncated <=>
         (last.req.max_page_size > 0 /\ Len(Satisfying) > last.req.max_page_size)
    /\ PaginatorBuiltToken => last.out.msg.next_page_token # <<>>
    /\ ~PaginatorBuiltToken => TokenPassedThrough

\* -------------------------------------------------- properties of cursors
\* the positions of a list that satisfy a test, and the least of them
Positions(tests) == { i \in 1..Len(tests) : tests[i] }
Least(S) == CHOOSE i \in S : \A j \in S : i <= j

\* the elements of the applied list that are the cursor
CursorMatches ==
  Positions([i \in 1..Len(last.results) |->
     /\ last.results[i].path = last.tkn.after
     /\ last.schema = "entries" => SomeTime(last.results[i].update_time) = last.tkn.start])

\* the elements whose sort key is at or after the cursor's
AtOrAfterCursor ==
  Positions([i \in 1..Len(last.results) |->
     IF last.schema = "entries" THEN last.results[i].update_time >= last.tkn.start.Time
     ELSE last.results[i].path >= last.tkn.after])

\* C21: token application keeps the elements strictly after the element that
\* matches the cursor (for entries on path and update_time); when none
\* matches, ListEntries resumes at the first element updated at or after the
\* token's start_update_time and ListCategories at the first element whose
\* path is at or after the cursor path; when none qualifies nothing is left
C21_CursorThenFallback ==
  (last.op = "applyToken" /\ last.schema \in {"categories", "entries"}) =>
    /\ last.out.code = OK
    /\ last.out.results =
         IF CursorMatches # {} THEN SliceFrom(last.results, Least(CursorMatches) + 1)
         ELSE IF AtOrAfterCursor # {} THEN SliceFrom(last.results, Least(AtOrAfterCursor))
         ELSE <<>>

\* the entry the token names is listed with another update_time, and the
\* listing resumes at an element in the middle of the list
C21_Witness ==
  /\ last.op = "applyToken" /\ last.schema = "entries"
  /\ CursorMatches = {}
  /\ \E i \in 1..Len(last.results) : last.results[i].path = last.tkn.after
  /\ AtOrAfterCursor # {} /\ Least(AtOrAfterCursor) > 1
  /\ last.results[Least(AtOrAfterCursor)].update_time = last.tkn.start.Time
  /\ last.out.results = SliceFrom(last.results, Least(AtOrAfterCursor))

\* C30: a ListChapters call whose page_token is valid and names a chapter
\* that is not in the freshly scraped list is answered exactly as the same
\* call without a token, from the first chapter on
C30_UnknownChapterCursorIgnored ==
  (/\ last.op = "ListChapters"
   /\ last.reqValid
   /\ last.req.page_token # <<>>
   /\ FromToken(last.req.page_token, "chapters").err = OK
   /\ \A i \in 1..Len(ScraperListChapters(last.req).results) :
        ScraperListChapters(last.req).results[i].path #
          FromToken(last.req.page_token, "chapters").msg.after) =>
    /\ last.handled = ListChaptersHandler(last.user.ID, [last.req EXCEPT !.page_token = <<>>])
    /\ last.out = validate(TRUE, last.resValid,
                           ListChaptersHandler(last.user.ID, [last.req EXCEPT !.page_token = <<>>]))

\* the token names a chapter the entry does not have, and the answer starts
\* at the entry's first chapter
C30_Witness ==
  /\ last.op = "ListChapters" /\ last.reqValid /\ last.out.code = OK
  /\ last.req.parent = ListedEntry
  /\ FromToken(last.req.page_token, "chapters").err = OK
  /\ FromToken(last.req.page_token, "chapters").msg.after = UnlistedChapter
  /\ Len(last.out.msg.results) > 0
  /\ last.out.msg.results[1].path = upstream.chapters[1].path

\* ------------------------------------- properties of the upstream pages
\* the upstream-page counter the last request was served from
ServedPage ==
  IF last.req.page_token = <<>> THEN 1
  ELSE FromToken(last.req.page_token, "entries").msg.page

\* the upstream-page counter of the last answer's token
NextPageCounter == FromToken(last.out.msg.next_page_token, "entries").msg.page

\* a ListEntries answer for a category the upstream paginates that carries
\* a continuation token
EntriesContinued ==
  /\ last.op = "ListEntries" /\ last.out.code = OK
  /\ upstream.scroll
  /\ last.out.msg.next_page_token # <<>>

\* C22: when a ListEntries answer for a paginated category consumes every element after the cursor
\* its token's upstream-page counter is one greater than the counter the
\* request was served from, and when elements remain it is that counter
C22_PageCounterAdvances ==
  EntriesContinued =>
    IF ResultsTruncated THEN NextPageCounter = ServedPage
    ELSE NextPageCounter = ServedPage + 1

\* the part of it that holds: the counter moves by at most one, and only
\* when nothing after the cursor is left
PageCounterMovesOnlyWhenExhausted ==
  EntriesContinued =>
    /\ NextPageCounter \in {ServedPage, ServedPage + 1}
    /\ ResultsTruncated => NextPageCounter = ServedPage

\* -------------------------------------------- properties of the Scraper
\* C23: Scraper.ListEntries returns a next_page_token only if the fetched
\* page carries the scroll marker and at least one row was parsed from it
C23_TokenOnlyWithRows ==
  (last.op = "Scraper.ListEntries" /\ last.out.code = OK
     /\ last.out.next_page_token # <<>>) =>
    /\ upstream.scroll
    /\ Len(last.out.results) > 0

\* what the Scraper does: a token goes out whenever the page carries the
\* marker or the request asked for an upstream page after the first
TokenWheneverPaginated ==
  (last.op = "Scraper.ListEntries" /\ last.out.code = OK) =>
    (last.out.next_page_token # <<>> <=>
       \/ upstream.scroll
       \/ /\ last.req.page_token # <<>>
          /\ FromToken(last.req.page_token, "entries").msg.page > 1)

\* ---------------------------------------------- properties of the join
\* C24: in hydrateResource the interaction fields are copied onto the scraped
\* resource only after both legs have finished successfully; once a leg has
\* failed the group's context is cancelled, a failed lookup counts as
\* Internal, and the call returns the first error that occurred and no
\* response
C24_JoinThenHydrate ==
  session.op = "hydrateResource" =>
    /\ session.pc = "returned" =>
         /\ session.scrape # "running" /\ session.lookup # "running"
         /\ session.out.code = OK =>
              /\ session.hydratedAfter = {"ok"}
              /\ session.errs = <<>>
              /\ session.out.msg =
                   hydrate(session.type, handle(session.type, session.req).msg,
                           RecordOrDefault(resources, session.user, session.req.path))
    /\ (session.scrape = "failed" \/ session.lookup = "failed") =>
         /\ session.ctx = "cancelled"
         /\ session.errs # <<>>
         /\ session.pc = "returned" => session.out = GetError(session.errs[1])
    /\ (session.lookup = "failed" /\ session.scrape # "failed") =>
         session.errs = <<Internal>>

\* the scrape failed first, the lookup failed after it, and the call
\* returned the scrape's error
C24_Witness ==
  /\ session.op = "hydrateResource" /\ session.pc = "returned"
  /\ session.scrape = "failed" /\ session.lookup = "failed"
  /\ session.errs = <<NotFound, Internal>>
  /\ session.out = GetError(NotFound)

\* ----------------------------------------------- properties of filters
\* C25: a list request with a non-empty filter that does not compile against
\* the element schema, or whose expression is not boolean, fails with
\* InvalidArgument
C25_BadFilterRejected ==
  (/\ last.op \in ListOps
   /\ last.req.filter # ""
   /\ ~compileFilter(SchemaOf(last.op), last.req.filter)) =>
    last.out.code = InvalidArgument

\* what applyFilter does: the filter is compiled only when there is
\* something left to filter after the token was applied
BadFilterRejectedUnlessEmpty ==
  (/\ last.op \in ListOps
   /\ last.req.filter # ""
   /\ ~compileFilter(SchemaOf(last.op), last.req.filter)) =>
    IF SessionHydrated.code = OK /\ Len(AfterCursor) = 0
      THEN last.out.code = OK /\ last.out.msg.results = <<>>
      ELSE last.out.code = IF SessionHydrated.code = OK THEN InvalidArgument
                           ELSE SessionHydrated.code

\* ------------------------------------- properties of paginated categories
\* a session that lists the entries of a category the upstream serves in
\* several pages, unfiltered, with a page size
PaginatedSession ==
  /\ session.op = "ListEntries"
  /\ upstream.scroll
  /\ session.filter = ""
  /\ session.max_page_size > 0

\* every entry of every upstream page has been returned
EveryEntryReturned ==
  \A i \in 1..Len(Flatten(upstream.pages)) :
    Flatten(upstream.pages)[i].path \in Range(ReturnedPaths)

\* C26: for a category in several unchanging upstream pages and any
\* max_page_size > 0, following next_page_token ends with an empty token,
\* every entry having been returned, and no run of calls hands back empty
\* results with a token for ever.  The handler computes its answer from
\* the request and the unchanging upstream alone, so the client can only
\* reach the end if every call moves it on: the call brings an entry the
\* client had not seen, or a token other than the one sent, or the end
C26_PaginatedListingEnds ==
  [][ (PaginatedSession /\ session.pc = "run") => session' # session ]_vars

\* the same as a property of whole runs of the client that keeps calling
PaginatedListingEventuallyEnds ==
  PaginatedSession ~> (session.pc = "done" /\ EveryEntryReturned)

\* C27: for a category the upstream serves as a single page (no scroll
\* marker) every next_page_token ListEntries returns, whatever the page
\* size and the token followed, carries upstream-page counter 1
C27_SinglePageCounterStays ==
  (/\ last.op = "ListEntries" /\ last.out.code = OK
   /\ ~upstream.scroll
   /\ last.out.msg.next_page_token # <<>>) =>
    NextPageCounter = 1

\* ------------------------------------------------ properties of a failed update
\* C29: an Update call is all-or-nothing for the store: whenever
\* UpdateCategory, UpdateEntry or UpdateChapter returns an error, the error
\* of the re-read after the upsert included, the stored rows are those
\* from before the call
C29_FailedUpdateLeavesStore ==
  [][ (last'.op \in UpdateOps /\ last'.out.code # OK) => resources' = resources ]_vars

\* what the code keeps: an update that fails before the upsert (request
\* refused, bad mask) leaves the store as it was
RefusedUpdateLeavesStore ==
  [][ (/\ last'.op \in UpdateOps /\ last'.out.code # OK
       /\ "store_write" \notin last'.out.touched) => resources' = resources ]_vars

\* ------------------------------------------ properties of concurrent updates
\* the stored row of the caller already carries what the request's mask
\* asks for: applying the mask again changes nothing
Carries(call) ==
  LET got == StoreGetResource(resources, RaceUser.ID, call.req.path)
  IN /\ got.err = OK
     /\ update("Entry", got.row, call.req.resource, call.req.update_mask.paths).resource = got.row

BothReturned ==
  /\ session.op = "race"
  /\ \A c \in RaceCalls : session.calls[c].pc = "done" /\ session.calls[c].code = OK

\* C28: two concurrent Update calls of one user on one path with disjoint
\* masks both take effect under every interleaving: once both returned
\* successfully, the stored row carries both new values
C28_DisjointUpdatesBothKept ==
  BothReturned => \A c \in RaceCalls : Carries(session.calls[c])

\* what the code keeps: the call that upserted last is in the stored row
LastUpsertKept ==
  (BothReturned /\ last.op = "GetEntry") =>
    \E c \in RaceCalls : Carries(session.calls[c])

====
